---- MODULE Spec2Model ----
(***************************************************************************)
(* A model of the pce CoreDNS plugin (PextraCloud/pce-coredns).            *)
(*                                                                         *)
(* The plugin answers queries for two zones: pce.internal. from the        *)
(* database adapter (internal/db) and bootstrap.pce.internal. from the     *)
(* static-file adapter (internal/static).  ServeDNS picks the zone,        *)
(* asks the zone's adapter, encodes the records and writes one reply, or   *)
(* hands the query to the next plugin of the chain.                        *)
(*                                                                         *)
(* Domain names are modelled as a sequence of labels and a flag saying     *)
(* whether the text ends with a dot, so that "" is <<>> without the dot    *)
(* and "." is <<>> with it.  Lower-casing and the trailing dot are         *)
(* computed, never assumed.                                                *)
(***************************************************************************)
EXTENDS Integers, Sequences, FiniteSets, TLC

(***************************************************************************)
(* Bounds of the model.                                                    *)
(***************************************************************************)
\* the latest modification time the file system hands out
MaxMtime == 1
\* the last second of the clock the reconnect throttle reads
MaxTime == 2
\* the longest record collection handed to the lookup and to the encoder
MaxRecs == 2
\* the longest TXT payload handed to splitTxtData
MaxTxtLen == 600
\* the most calls of ReadStatic that are followed
MaxCalls == 3
\* the most rows the store returns to a load studied on its own
MaxRows == 3
\* the last second of the clock when the connection is studied on its own
MaxClock == 4
\* the most writes of the file while the tasks of the static adapter run
MaxEdits == 2
\* the most times the file is written between them
MaxWrites == 2

(***************************************************************************)
(* Constants of github.com/miekg/dns used by the code.                     *)
(***************************************************************************)
TypeA == 1
TypeCNAME == 5
TypeTXT == 16
TypeAAAA == 28
TypeSRV == 33
TypeANY == 255
\* a type recordToRR has no case for
TypeOther == 65000
ClassINET == 1
RcodeSuccess == 0
RcodeServerFailure == 2
RcodeNameError == 3

(***************************************************************************)
(* Domain names.                                                           *)
(***************************************************************************)
MkName(labels, fq) == [labels |-> labels, fq |-> fq]

\* the empty string
EmptyName == MkName(<<>>, FALSE)
\* "."
RootName == MkName(<<>>, TRUE)

\* strings.ToLower on the labels the model uses
Lower(l) ==
  CASE l = "N1" -> "n1"
    [] l = "N2" -> "n2"
    [] l = "N1-api" -> "n1-api"
    [] l = "N1-web" -> "n1-web"
    [] l = "N2-api" -> "n2-api"
    [] l = "N2-web" -> "n2-web"
    [] l = "PCE" -> "pce"
    [] l = "Internal" -> "internal"
    [] l = "Bootstrap" -> "bootstrap"
    [] OTHER -> l

\* dns.Fqdn: the name with a trailing dot
Fqdn(n) == [n EXCEPT !.fq = TRUE]

\* dns.CanonicalName: lower case and fully qualified
CanonicalName(n) ==
  [labels |-> [i \in DOMAIN n.labels |-> Lower(n.labels[i])], fq |-> TRUE]

\* fmt.Sprintf("%s.%s", host, zone)
JoinName(host, zone) == MkName(<<host>> \o zone.labels, zone.fq)

RECURSIVE LabelsLen(_)
LabelsLen(ls) ==
  IF ls = <<>> THEN 0 ELSE Len(Head(ls)) + LabelsLen(Tail(ls))

\* len() of the name's text
StrLen(n) ==
  LabelsLen(n.labels)
    + (IF Len(n.labels) > 0 THEN Len(n.labels) - 1 ELSE 0)
    + (IF n.fq THEN 1 ELSE 0)

\* dns.CountLabel
CountLabel(n) == Len(n.labels)

RECURSIVE CommonTail(_, _)
CommonTail(a, b) ==
  IF a = <<>> \/ b = <<>> THEN 0
  ELSE IF Lower(a[Len(a)]) = Lower(b[Len(b)])
       THEN 1 + CommonTail(SubSeq(a, 1, Len(a) - 1), SubSeq(b, 1, Len(b) - 1))
       ELSE 0

\* dns.CompareDomainName: the number of labels shared from the right
CompareDomainName(a, b) == CommonTail(a.labels, b.labels)

\* dns.IsSubDomain
IsSubDomain(parent, child) ==
  CompareDomainName(parent, child) = CountLabel(parent)

RECURSIVE MatchesFrom(_, _, _, _)
MatchesFrom(z, qname, i, zone) ==
  IF i > Len(z) THEN zone
  ELSE MatchesFrom(z, qname, i + 1,
         IF IsSubDomain(z[i], qname) /\ StrLen(z[i]) > StrLen(zone)
         THEN z[i] ELSE zone)

\* plugin.Zones(z).Matches(qname): the longest zone qname is under, or ""
Matches(z, qname) == MatchesFrom(z, qname, 1, EmptyName)

(***************************************************************************)
(* Zones (internal/util/zones.go).                                         *)
(***************************************************************************)
zoneBase == MkName(<<"pce", "internal">>, TRUE)
ZoneDynamic == zoneBase
ZoneBootstrap == JoinName("bootstrap", zoneBase)
ZonesList == <<ZoneDynamic, ZoneBootstrap>>

(***************************************************************************)
(* Errors, as the kind of error the code builds; NoErr is Go's nil error.  *)
(***************************************************************************)
NoErr == "nil"
ErrUnsupportedType == "unsupported record type"
ErrUnknownZone == "unknown zone"
ErrNotInitialized == "db connection not initialized"
ErrQuery == "query failed"
ErrScan == "scan failed"
ErrRows == "rows error"
ErrUnknownFamily == "unknown address family"

(***************************************************************************)
(* Records and their encoding (util.Record, recordToRR, RecordsToRRs).     *)
(***************************************************************************)
\* a nil net.IP
NilIP == [ok |-> FALSE, v4 |-> FALSE, text |-> ""]

\* net.ParseIP on the address texts the model uses; text is the parsed
\* address as ip.String() prints it, v4 says whether ip.To4() is not nil
ParseIP(s) ==
  CASE s = "10.0.0.5" -> [ok |-> TRUE, v4 |-> TRUE, text |-> "10.0.0.5"]
    [] s = "10.0.0.6" -> [ok |-> TRUE, v4 |-> TRUE, text |-> "10.0.0.6"]
    [] s = "::ffff:10.0.0.5" -> [ok |-> TRUE, v4 |-> TRUE, text |-> "10.0.0.5"]
    [] s = "fe80::1" -> [ok |-> TRUE, v4 |-> FALSE, text |-> "fe80::1"]
    [] OTHER -> NilIP

\* the zero value of util.RecordContent
ZeroContent ==
  [IP |-> NilIP, CNAME |-> EmptyName, Priority |-> 0, Weight |-> 0,
   Port |-> 0, Target |-> EmptyName, Data |-> <<>>]

MkRecord(fqdn, type, ttl, content) ==
  [FQDN |-> fqdn, Type |-> type, TTL |-> ttl, Content |-> content]

\* the longest character-string of a TXT record
MaxTxtString == 255

RECURSIVE splitTxtData_geq(_)
splitTxtData_geq(content) ==
  IF Len(content) >= MaxTxtString
  THEN <<SubSeq(content, 1, MaxTxtString)>>
         \o splitTxtData_geq(SubSeq(content, MaxTxtString + 1, Len(content)))
  ELSE <<content>>

RECURSIVE splitTxtData(_)
splitTxtData(content) ==
  IF Len(content) > MaxTxtString
  THEN <<SubSeq(content, 1, MaxTxtString)>>
         \o splitTxtData(SubSeq(content, MaxTxtString + 1, Len(content)))
  ELSE <<content>>

RRHeader(r, rrtype) ==
  [Name |-> r.FQDN, Rrtype |-> rrtype, Class |-> ClassINET, Ttl |-> r.TTL]

AsARecord(r) == [Hdr |-> RRHeader(r, TypeA), A |-> r.Content.IP]

AsAAAARecord(r) == [Hdr |-> RRHeader(r, TypeAAAA), AAAA |-> r.Content.IP]

AsCNAMERecord(r) ==
  [Hdr |-> RRHeader(r, TypeCNAME), Target |-> Fqdn(r.Content.CNAME)]

AsSRVRecord(r) ==
  [Hdr |-> RRHeader(r, TypeSRV), Priority |-> r.Content.Priority,
   Weight |-> r.Content.Weight, Port |-> r.Content.Port,
   Target |-> Fqdn(r.Content.Target)]

AsTXTRecord(r) ==
  [Hdr |-> RRHeader(r, TypeTXT), Txt |-> splitTxtData(r.Content.Data)]

\* a nil dns.RR
NilRR == [Hdr |-> [Name |-> EmptyName, Rrtype |-> 0, Class |-> 0, Ttl |-> 0]]

recordToRR(record) ==
  CASE record.Type = TypeA -> [rr |-> AsARecord(record), err |-> NoErr]
    [] record.Type = TypeAAAA -> [rr |-> AsAAAARecord(record), err |-> NoErr]
    [] record.Type = TypeCNAME -> [rr |-> AsCNAMERecord(record), err |-> NoErr]
    [] record.Type = TypeSRV -> [rr |-> AsSRVRecord(record), err |-> NoErr]
    [] record.Type = TypeTXT -> [rr |-> AsTXTRecord(record), err |-> NoErr]
    [] OTHER -> [rr |-> NilRR, err |-> ErrUnsupportedType]

\* the loop of RecordsToRRs from the i-th record on; in the step, c is what
\* recordToRR made of that record
RECURSIVE RecordsToRRsFrom(_, _, _)
RECURSIVE RecordsToRRsStep(_, _, _, _)
RecordsToRRsFrom(records, i, answers) ==
  IF i > Len(records)
  THEN [answers |-> answers, answersNil |-> FALSE,
        rcode |-> RcodeSuccess, err |-> NoErr]
  ELSE RecordsToRRsStep(records, i, answers, recordToRR(records[i]))

RecordsToRRsStep(records, i, answers, c) ==
  IF c.err # NoErr
  THEN [answers |-> <<>>, answersNil |-> TRUE,
        rcode |-> RcodeServerFailure, err |-> c.err]
  ELSE RecordsToRRsFrom(records, i + 1, Append(answers, c.rr))

RECURSIVE RecordsToRRs_partialFrom(_, _, _)
RECURSIVE RecordsToRRs_partialStep(_, _, _, _)
RecordsToRRs_partialFrom(records, i, answers) ==
  IF i > Len(records)
  THEN [answers |-> answers, answersNil |-> FALSE,
        rcode |-> RcodeSuccess, err |-> NoErr]
  ELSE RecordsToRRs_partialStep(records, i, answers, recordToRR(records[i]))

RecordsToRRs_partialStep(records, i, answers, c) ==
  IF c.err # NoErr
  THEN [answers |-> answers, answersNil |-> FALSE,
        rcode |-> RcodeServerFailure, err |-> c.err]
  ELSE RecordsToRRs_partialFrom(records, i + 1, Append(answers, c.rr))

RecordsToRRs_keepPartial(records) == RecordsToRRs_partialFrom(records, 1, <<>>)

\* answersNil tells Go's nil slice from an empty one
RecordsToRRs(records) == RecordsToRRsFrom(records, 1, <<>>)

(***************************************************************************)
(* The query matcher of the static adapter (static.Plugin.LookupRecords).  *)
(***************************************************************************)
RECURSIVE StaticLookupFrom(_, _, _, _, _, _)
StaticLookupFrom(records, nameFqdn, qtype, i, results, nameExists) ==
  IF i > Len(records)
  THEN [records |-> results, nameExists |-> nameExists, err |-> NoErr]
  ELSE LET record == records[i] IN
       IF CanonicalName(record.FQDN) # nameFqdn
       THEN StaticLookupFrom(records, nameFqdn, qtype, i + 1, results, nameExists)
       ELSE IF qtype = TypeANY \/ record.Type = qtype
       THEN StaticLookupFrom(records, nameFqdn, qtype, i + 1,
                             Append(results, record), TRUE)
       ELSE IF (qtype = TypeA \/ qtype = TypeAAAA) /\ record.Type = TypeCNAME
       THEN StaticLookupFrom(records, nameFqdn, qtype, i + 1,
                             Append(results, record), TRUE)
       ELSE StaticLookupFrom(records, nameFqdn, qtype, i + 1, results, TRUE)

RECURSIVE StaticLookup_noCname(_, _, _, _, _, _)
StaticLookup_noCname(records, nameFqdn, qtype, i, results, nameExists) ==
  IF i > Len(records)
  THEN [records |-> results, nameExists |-> nameExists, err |-> NoErr]
  ELSE LET record == records[i] IN
       IF CanonicalName(record.FQDN) # nameFqdn
       THEN StaticLookup_noCname(records, nameFqdn, qtype, i + 1, results, nameExists)
       ELSE IF qtype = TypeANY \/ record.Type = qtype
       THEN StaticLookup_noCname(records, nameFqdn, qtype, i + 1,
                                 Append(results, record), TRUE)
       ELSE StaticLookup_noCname(records, nameFqdn, qtype, i + 1, results, TRUE)

StaticLookupRecords_noCname(records, name, qtype) ==
  StaticLookup_noCname(records, CanonicalName(name), qtype, 1, <<>>, FALSE)

StaticLookupRecords_existsOnMatch(records, name, qtype) ==
  LET r == StaticLookupFrom(records, CanonicalName(name), qtype, 1, <<>>, FALSE)
  IN [r EXCEPT !.nameExists = Len(r.records) > 0]

StaticLookupRecords(records, name, qtype) ==
  StaticLookupFrom(records, CanonicalName(name), qtype, 1, <<>>, FALSE)

(***************************************************************************)
(* The static file and its decoding (internal/static/parse.go).            *)
(***************************************************************************)
\* every order in which Go may range over a map with the keys S
Perms(S) ==
  {o \in [1..Cardinality(S) -> S] :
     \A i, j \in 1..Cardinality(S) : i # j => o[i] # o[j]}

ErrDecode == "json decode failed"

\* the loop of parseStaticFile, over the keys in the order Go ranged
RECURSIVE parseNodesFrom(_, _, _, _, _)
parseNodesFrom(nodes, order, ttl, i, records) ==
  IF i > Len(order) THEN records
  ELSE LET nodeId == order[i]
           ip == ParseIP(nodes[nodeId])
           recType == IF ip.v4 THEN TypeA ELSE TypeAAAA
           record == MkRecord(CanonicalName(JoinName(nodeId, ZoneBootstrap)),
                              recType, ttl, [ZeroContent EXCEPT !.IP = ip])
       IN IF ~ip.ok
          THEN parseNodesFrom(nodes, order, ttl, i + 1, records)
          ELSE parseNodesFrom(nodes, order, ttl, i + 1, Append(records, record))

parseStaticFile_failsOnBadIP(content, ttl, order) ==
  IF ~content.decodable
  THEN [records |-> <<>>, err |-> ErrDecode]
  ELSE IF \E n \in DOMAIN content.nodes : ~ParseIP(content.nodes[n]).ok
  THEN [records |-> <<>>, err |-> ErrDecode]
  ELSE [records |-> parseNodesFrom(content.nodes, order, ttl, 1, <<>>),
        err |-> NoErr]

\* content is what the file holds: whether it decodes, and its nodes map
parseStaticFile(content, ttl, order) ==
  IF ~content.decodable
  THEN [records |-> <<>>, err |-> ErrDecode]
  ELSE [records |-> parseNodesFrom(content.nodes, order, ttl, 1, <<>>),
        err |-> NoErr]

(***************************************************************************)
(* The topology rows and the records built from them (internal/db/db.go).  *)
(***************************************************************************)
\* util.RolesList, the catalog of roles
RolesList == <<"api", "web">>

\* one row of nodeRecordsQuery
MkRow(nodeId, address, family, isDefault, roles) ==
  [nodeId |-> nodeId, Address |-> address, AddressFamily |-> family,
   IsDefault |-> isDefault, Roles |-> roles]

\* fmt.Sprintf("%s-%s.%s", nodeId, role, util.ZoneDynamic)
RoleName(nodeId, role) == JoinName(nodeId \o "-" \o role, ZoneDynamic)

RECURSIVE getFqdnsFrom(_, _, _, _)
getFqdnsFrom(nodeId, roles, i, fqdns) ==
  IF i > Len(roles) THEN fqdns
  ELSE getFqdnsFrom(nodeId, roles, i + 1,
                    Append(fqdns, CanonicalName(RoleName(nodeId, roles[i]))))

getFqdnsForNode(nodeId, roles) == getFqdnsFrom(nodeId, roles, 1, <<>>)

\* nodeRecordsMap[nodeId]: the rows of the node, in the order scanned
NodeRows(rows, nodeId) == SelectSeq(rows, LAMBDA r : r.nodeId = nodeId)

\* the keys of nodeRecordsMap
NodeIds(rows) == {rows[i].nodeId : i \in DOMAIN rows}

\* whether defaultAddressMap has the node
HasDefault(rows, nodeId) ==
  \E i \in DOMAIN rows : rows[i].nodeId = nodeId /\ rows[i].IsDefault

\* defaultAddressMap[nodeId]: the last default row scanned wins
DefaultRow(rows, nodeId) ==
  LET ds == SelectSeq(rows, LAMBDA r : r.nodeId = nodeId /\ r.IsDefault)
  IN ds[Len(ds)]

\* the roles some row of the node carries
AssignedRoles(nodeRecords) ==
  UNION {{nodeRecords[i].Roles[j] : j \in DOMAIN nodeRecords[i].Roles} :
           i \in DOMAIN nodeRecords}

RECURSIVE expandFrom(_, _, _, _, _)
expandFrom(nodeId, defaultAddr, assigned, i, nodeRecords) ==
  IF i > Len(RolesList) THEN nodeRecords
  ELSE IF RolesList[i] \in assigned
       THEN expandFrom(nodeId, defaultAddr, assigned, i + 1, nodeRecords)
       ELSE expandFrom(nodeId, defaultAddr, assigned, i + 1,
              Append(nodeRecords,
                     MkRow(nodeId, defaultAddr.Address, defaultAddr.AddressFamily,
                           TRUE, <<RolesList[i]>>)))

expandRolesWithDefaults_noAssignedCheck(nodeId, nodeRecords, rows) ==
  IF HasDefault(rows, nodeId)
  THEN expandFrom(nodeId, DefaultRow(rows, nodeId), {}, 1, nodeRecords)
  ELSE nodeRecords

expandRolesWithDefaults_noFallback(nodeId, nodeRecords, rows) == nodeRecords

\* rows is the whole result set (it decides defaultAddressMap)
expandRolesWithDefaults(nodeId, nodeRecords, rows) ==
  IF HasDefault(rows, nodeId)
  THEN expandFrom(nodeId, DefaultRow(rows, nodeId),
                  AssignedRoles(nodeRecords), 1, nodeRecords)
  ELSE nodeRecords

\* the short TTL of the records built from the database
DbTTL == 30

RECURSIVE buildIPRecordsFrom(_, _, _, _, _)
buildIPRecordsFrom(fqdns, recordType, ip, i, records) ==
  IF i > Len(fqdns) THEN records
  ELSE buildIPRecordsFrom(fqdns, recordType, ip, i + 1,
         Append(records, MkRecord(fqdns[i], recordType, DbTTL,
                                  [ZeroContent EXCEPT !.IP = ip])))

buildIPRecords(fqdns, recordType, ip) ==
  buildIPRecordsFrom(fqdns, recordType, ip, 1, <<>>)

recordsForIP_failsOnBadIP(fqdns, family, ip) ==
  IF ~ip.ok THEN [records |-> <<>>, err |-> ErrUnknownFamily]
  ELSE CASE family = "4" ->
              [records |-> buildIPRecords(fqdns, TypeA, ip), err |-> NoErr]
         [] family = "6" ->
              [records |-> buildIPRecords(fqdns, TypeAAAA, ip), err |-> NoErr]
         [] OTHER -> [records |-> <<>>, err |-> ErrUnknownFamily]

\* the switch of recordsForNodeRecord, once the address is parsed
recordsForIP(fqdns, family, ip) ==
  IF ~ip.ok THEN [records |-> <<>>, err |-> NoErr]
  ELSE CASE family = "4" ->
              [records |-> buildIPRecords(fqdns, TypeA, ip), err |-> NoErr]
         [] family = "6" ->
              [records |-> buildIPRecords(fqdns, TypeAAAA, ip), err |-> NoErr]
         [] OTHER -> [records |-> <<>>, err |-> ErrUnknownFamily]

recordsForNodeRecord(nodeId, r) ==
  recordsForIP(getFqdnsForNode(nodeId, r.Roles), r.AddressFamily,
               ParseIP(r.Address))

\* the inner loop of buildDNSRecords over one node's rows; in the step, c is
\* what recordsForNodeRecord returned for the i-th
RECURSIVE buildNodeFrom(_, _, _, _)
RECURSIVE buildNodeStep(_, _, _, _, _)
buildNodeFrom(nodeId, finalNodeRecords, i, records) ==
  IF i > Len(finalNodeRecords) THEN [records |-> records, err |-> NoErr]
  ELSE buildNodeStep(nodeId, finalNodeRecords, i, records,
                     recordsForNodeRecord(nodeId, finalNodeRecords[i]))

buildNodeStep(nodeId, finalNodeRecords, i, records, c) ==
  IF c.err # NoErr THEN [records |-> <<>>, err |-> c.err]
  ELSE buildNodeFrom(nodeId, finalNodeRecords, i + 1, records \o c.records)

\* the outer loop of buildDNSRecords, over the nodes in the order Go ranged;
\* in the step, c is what the inner loop made of the i-th node
RECURSIVE buildDNSRecordsFrom(_, _, _, _)
RECURSIVE buildDNSRecordsStep(_, _, _, _)
buildDNSRecordsFrom(rows, order, i, records) ==
  IF i > Len(order) THEN [records |-> records, err |-> NoErr]
  ELSE buildDNSRecordsStep(rows, order, i,
         buildNodeFrom(order[i],
                       expandRolesWithDefaults(order[i], NodeRows(rows, order[i]), rows),
                       1, records))

buildDNSRecordsStep(rows, order, i, c) ==
  IF c.err # NoErr THEN c
  ELSE buildDNSRecordsFrom(rows, order, i + 1, c.records)

buildDNSRecords(rows, order) == buildDNSRecordsFrom(rows, order, 1, <<>>)

(***************************************************************************)
(* The database adapter (internal/db/plugin.go, internal/db/db.go).        *)
(* A db.Plugin is [DataSource, db, lastConnectAttempt]; db says whether    *)
(* the handle p.db is installed.  Times are whole seconds.                 *)
(***************************************************************************)
\* the zero time.Time that lastConnectAttempt starts with
ZeroTime == -1000
\* 2*time.Second
ConnectCooldown == 2

\* time.Since(u) read at time t
Since(t, u) == t - u

\* db.NewPlugin, and the datasource parseConfig stores in it
NewDbPlugin(dataSource) ==
  [DataSource |-> dataSource, db |-> FALSE, lastConnectAttempt |-> ZeroTime]

\* what one Connect did: the adapter it leaves, and whether it called
\* sqlOpen and PingContext
Connected(d, opened, pinged, closed) ==
  [d |-> d, opened |-> opened, pinged |-> pinged, closed |-> closed]

ConnectRun_noThrottle(d, t, openOk, pingOk) ==
  IF d.DataSource = ""
  THEN Connected([d EXCEPT !.lastConnectAttempt = t], FALSE, FALSE, FALSE)
  ELSE IF ~openOk
  THEN Connected([d EXCEPT !.lastConnectAttempt = t], TRUE, FALSE, FALSE)
  ELSE IF ~pingOk
  THEN Connected([d EXCEPT !.lastConnectAttempt = t], TRUE, TRUE, TRUE)
  ELSE Connected([d EXCEPT !.lastConnectAttempt = t, !.db = TRUE], TRUE, TRUE, FALSE)

ConnectRun_installsBeforePing(d, t, openOk, pingOk) ==
  IF Since(t, d.lastConnectAttempt) < ConnectCooldown
  THEN Connected(d, FALSE, FALSE, FALSE)
  ELSE IF d.DataSource = ""
  THEN Connected([d EXCEPT !.lastConnectAttempt = t], FALSE, FALSE, FALSE)
  ELSE IF ~openOk
  THEN Connected([d EXCEPT !.lastConnectAttempt = t], TRUE, FALSE, FALSE)
  ELSE IF ~pingOk
  THEN Connected([d EXCEPT !.lastConnectAttempt = t, !.db = TRUE], TRUE, TRUE, TRUE)
  ELSE Connected([d EXCEPT !.lastConnectAttempt = t, !.db = TRUE], TRUE, TRUE, FALSE)

\* Connect at time t; openOk and pingOk are what sql.Open and PingContext do
\* (a ping that times out is a ping that fails); closed says db.Close() was
\* called on the connection that was opened
ConnectRun(d, t, openOk, pingOk) ==
  IF Since(t, d.lastConnectAttempt) < ConnectCooldown
  THEN Connected(d, FALSE, FALSE, FALSE)
  ELSE IF d.DataSource = ""
  THEN Connected([d EXCEPT !.lastConnectAttempt = t], FALSE, FALSE, FALSE)
  ELSE IF ~openOk
  THEN Connected([d EXCEPT !.lastConnectAttempt = t], TRUE, FALSE, FALSE)
  ELSE IF ~pingOk
  THEN Connected([d EXCEPT !.lastConnectAttempt = t], TRUE, TRUE, TRUE)
  ELSE Connected([d EXCEPT !.lastConnectAttempt = t, !.db = TRUE], TRUE, TRUE, FALSE)

\* the adapter Connect leaves
Connect(d, t, openOk, pingOk) == ConnectRun(d, t, openOk, pingOk).d

\* loadNodeRecords once the query has returned its rows; b is what
\* buildDNSRecords made of them
loadBuilt(d, env, b) ==
  IF b.err # NoErr
  THEN [records |-> <<>>, err |-> b.err, d |-> d, queried |-> TRUE]
  ELSE IF env.query = "rows"
  THEN [records |-> <<>>, err |-> ErrRows, d |-> d, queried |-> TRUE]
  ELSE [records |-> b.records, err |-> NoErr, d |-> d, queried |-> TRUE]

\* loadNodeRecords after its call of Connect, if any
loadConnected(d, env, rows) ==
  IF ~d.db
  THEN [records |-> <<>>, err |-> ErrNotInitialized, d |-> d, queried |-> FALSE]
  ELSE IF env.query = "query"
  THEN [records |-> <<>>, err |-> ErrQuery, d |-> d, queried |-> TRUE]
  ELSE IF env.query = "scan"
  THEN [records |-> <<>>, err |-> ErrScan, d |-> d, queried |-> TRUE]
  ELSE loadBuilt(d, env, buildDNSRecords(rows, env.order))

loadNodeRecords_noConnect(d, t, env, rows) == loadConnected(d, env, rows)

\* env: what the store does during this call: openOk, pingOk, query (how the
\* query ends: "ok", "query", "scan" or "rows") and order (Go's map order)
loadNodeRecords(d, t, env, rows) ==
  loadConnected(IF ~d.db THEN Connect(d, t, env.openOk, env.pingOk) ELSE d,
                env, rows)

\* the filter loop of db.Plugin.LookupRecords
RECURSIVE DbFilterFrom(_, _, _, _, _)
DbFilterFrom(records, nameFqdn, qtype, i, filtered) ==
  IF i > Len(records) THEN filtered
  ELSE LET record == records[i] IN
       IF CanonicalName(record.FQDN) # nameFqdn
       THEN DbFilterFrom(records, nameFqdn, qtype, i + 1, filtered)
       ELSE IF qtype = TypeANY \/ record.Type = qtype
       THEN DbFilterFrom(records, nameFqdn, qtype, i + 1, Append(filtered, record))
       ELSE IF (qtype = TypeA \/ qtype = TypeAAAA) /\ record.Type = TypeCNAME
       THEN DbFilterFrom(records, nameFqdn, qtype, i + 1, Append(filtered, record))
       ELSE DbFilterFrom(records, nameFqdn, qtype, i + 1, filtered)

DbNameExists_onMatch(records, nameFqdn, qtype) ==
  Len(DbFilterFrom(records, nameFqdn, qtype, 1, <<>>)) > 0

\* the nameExists result util.Adapter declares for the database adapter:
\* some record, of any type, has the name
DbNameExists(records, nameFqdn, qtype) ==
  \E i \in DOMAIN records : CanonicalName(records[i].FQDN) = nameFqdn

\* LookupRecords after loadNodeRecords returned l
DbLookupLoaded(l, nameFqdn, qtype) ==
  IF l.err # NoErr
  THEN [records |-> <<>>, nameExists |-> FALSE, err |-> l.err, d |-> l.d]
  ELSE [records |-> DbFilterFrom(l.records, nameFqdn, qtype, 1, <<>>),
        nameExists |-> DbNameExists(l.records, nameFqdn, qtype),
        err |-> NoErr, d |-> l.d]

DbLookupRecords(d, t, env, rows, name, qtype) ==
  DbLookupLoaded(loadNodeRecords(d, t, env, rows), CanonicalName(name), qtype)

(***************************************************************************)
(* The static adapter (static.Plugin: Start, ReadStatic).                  *)
(* A static.Plugin is [Interval, Path, TTL, cachedSize, cachedMtime,       *)
(* records, loop]; loop says whether p.loop is set.                        *)
(***************************************************************************)
\* 5 * time.Second, in seconds
DefaultInterval == 5
DefaultTTL == 10
DefaultPath == "/var/lib/pce/crdb-locality"
\* the zero time.Time that cachedMtime starts with
ZeroMtime == 0

NewStaticPlugin ==
  [Interval |-> DefaultInterval, Path |-> DefaultPath, TTL |-> DefaultTTL,
   cachedSize |-> 0, cachedMtime |-> ZeroMtime, records |-> <<>>,
   loop |-> FALSE]

ReadStaticParsed_storesOnError(p, f, c) ==
  [p EXCEPT !.records = c.records,
            !.cachedSize = f.size,
            !.cachedMtime = f.mtime]

\* the end of ReadStatic; c is what parseStaticFile returned
ReadStaticParsed(p, f, c) ==
  IF c.err # NoErr THEN p
  ELSE [p EXCEPT !.records = c.records,
                 !.cachedSize = f.size,
                 !.cachedMtime = f.mtime]

\* ReadStatic once the file is decoded, with the way the call ended
ReadStaticDecoded(p, f, c) ==
  [p |-> ReadStaticParsed(p, f, c),
   outcome |-> IF c.err # NoErr THEN "decode" ELSE "ok"]

ReadStaticRun_noChangeCheck(p, f, statOk, order) ==
  IF ~f.exists THEN [p |-> p, outcome |-> "open"]
  ELSE IF ~statOk THEN [p |-> p, outcome |-> "stat"]
  ELSE ReadStaticDecoded(p, f, parseStaticFile(f.content, p.TTL, order))

\* ReadStatic with the way the call ended: "open" and "stat" (the file could
\* not be opened, or not be stat'ed), "unchanged", "decode" (parseStaticFile
\* failed) or "ok".  f is the file at p.Path: [exists, size, mtime, content];
\* statOk is what file.Stat does, order is Go's order over the nodes map
ReadStaticRun(p, f, statOk, order) ==
  IF ~f.exists THEN [p |-> p, outcome |-> "open"]
  ELSE IF ~statOk THEN [p |-> p, outcome |-> "stat"]
  ELSE IF f.size = p.cachedSize /\ f.mtime = p.cachedMtime
  THEN [p |-> p, outcome |-> "unchanged"]
  ELSE ReadStaticDecoded(p, f, parseStaticFile(f.content, p.TTL, order))

\* the adapter ReadStatic leaves behind
ReadStatic(p, f, statOk, order) == ReadStaticRun(p, f, statOk, order).p

\* Start, with the first refresh it runs before it returns
Start(p, f, statOk, order) ==
  IF p.loop THEN p
  ELSE IF p.Path = "" THEN p
  ELSE IF p.Interval <= 0
  THEN ReadStatic([p EXCEPT !.TTL = IF p.TTL = 0 THEN DefaultTTL ELSE p.TTL],
                  f, statOk, order)
  ELSE ReadStatic([p EXCEPT !.TTL = IF p.TTL = 0 THEN DefaultTTL ELSE p.TTL,
                            !.loop = TRUE],
                  f, statOk, order)

(***************************************************************************)
(* The handler (pce.PcePlugin: zones, adapterFromZone, canFallthrough,     *)
(* ServeDNS, errResponse, successResponse).                                *)
(***************************************************************************)
\* a question: the name as the client sent it (fully qualified, any case)
\* and the query type
MkReq(name, qtype) == [name |-> name, qtype |-> qtype]

\* request.Request.Name: the question's name in lower case
StateName(r) ==
  [labels |-> [i \in DOMAIN r.name.labels |-> Lower(r.name.labels[i])],
   fq |-> r.name.fq]

\* PcePlugin.zones
zones == ZonesList

adapterFromZone_swapped(zone) ==
  CASE zone = ZoneDynamic -> [adapter |-> "static", err |-> NoErr]
    [] zone = ZoneBootstrap -> [adapter |-> "db", err |-> NoErr]
    [] OTHER -> [adapter |-> "nil", err |-> ErrUnknownZone]

adapterFromZone(zone) ==
  CASE zone = ZoneDynamic -> [adapter |-> "db", err |-> NoErr]
    [] zone = ZoneBootstrap -> [adapter |-> "static", err |-> NoErr]
    [] OTHER -> [adapter |-> "nil", err |-> ErrUnknownZone]

\* plugin.Host(zone).NormalizeExact() on a plain domain name
NormalizeExact(zone) == CanonicalName(zone)

\* PcePlugin.setFallthroughZones: the value it leaves in fallthroughZones
setFallthroughZones(zs) ==
  LET given == IF Len(zs) = 0 THEN <<RootName>> ELSE zs
  IN [i \in DOMAIN given |-> NormalizeExact(given[i])]

\* PcePlugin.canFallthrough over the configured fallthrough zones fz
canFallthrough(fz, qName) == Matches(fz, qName) # EmptyName

\* what one ServeDNS did: the messages it wrote, the requests it passed to
\* plugin.NextOrFailure, the adapter lookups it made, the result of the last
\* lookup, what it returned, and the database adapter it left behind
NoLookup == [records |-> <<>>, nameExists |-> FALSE, err |-> NoErr]

Outcome(writes, next, lookups, lk, rcode, err, d) ==
  [writes |-> writes, next |-> next, lookups |-> lookups, lk |-> lk,
   rcode |-> rcode, err |-> err, d |-> d]

\* the message errResponse writes
ErrMsg(r, rcode) ==
  [Question |-> r, Response |-> TRUE, Rcode |-> rcode, Authoritative |-> TRUE,
   RecursionAvailable |-> FALSE, Compress |-> TRUE, Answer |-> <<>>]

\* the message successResponse writes
SuccessMsg(r, answers) ==
  [Question |-> r, Response |-> TRUE, Rcode |-> RcodeSuccess,
   Authoritative |-> TRUE, RecursionAvailable |-> FALSE, Compress |-> TRUE,
   Answer |-> answers]

errResponse(r, rcode, err, lookups, lk, d) ==
  Outcome(<<ErrMsg(r, rcode)>>, <<>>, lookups, lk, rcode, err, d)

successResponse(r, answers, lookups, lk, d) ==
  Outcome(<<SuccessMsg(r, answers)>>, <<>>, lookups, lk, RcodeSuccess, NoErr, d)

\* the result of the static adapter, in the shape of the database adapter's
StaticResult(l, d) ==
  [records |-> l.records, nameExists |-> l.nameExists, err |-> l.err, d |-> d]

\* adapter.LookupRecords through the util.Adapter interface
LookupRecords(adapter, st, d, t, env, rows, qName, qType) ==
  IF adapter = "db"
  THEN DbLookupRecords(d, t, env, rows, qName, qType)
  ELSE StaticResult(StaticLookupRecords(st.records, qName, qType), d)

\* what the adapter returned, without the adapter's own state
LookupOf(l) ==
  [records |-> l.records, nameExists |-> l.nameExists, err |-> l.err]

ServeEncoded_noWrite(r, lookups, l, e) ==
  IF e.err # NoErr
  THEN Outcome(<<>>, <<>>, lookups, LookupOf(l), RcodeServerFailure, e.err, l.d)
  ELSE successResponse(r, e.answers, lookups, LookupOf(l), l.d)

\* ServeDNS after RecordsToRRs returned e
ServeEncoded(r, lookups, l, e) ==
  IF e.err # NoErr
  THEN errResponse(r, RcodeServerFailure, e.err, lookups, LookupOf(l), l.d)
  ELSE successResponse(r, e.answers, lookups, LookupOf(l), l.d)

ServeLookup_noNodata(r, lookups, l) ==
  IF l.err # NoErr
  THEN errResponse(r, RcodeServerFailure, l.err, lookups, LookupOf(l), l.d)
  ELSE IF Len(l.records) > 0
  THEN ServeEncoded(r, lookups, l, RecordsToRRs(l.records))
  ELSE errResponse(r, RcodeNameError, NoErr, lookups, LookupOf(l), l.d)

ServeLookup_errIgnored(r, lookups, l) ==
  IF Len(l.records) > 0
  THEN ServeEncoded(r, lookups, l, RecordsToRRs(l.records))
  ELSE IF l.nameExists
  THEN successResponse(r, <<>>, lookups, LookupOf(l), l.d)
  ELSE errResponse(r, RcodeNameError, l.err, lookups, LookupOf(l), l.d)

\* ServeDNS after the adapter returned l
ServeLookup(r, lookups, l) ==
  IF l.err # NoErr
  THEN errResponse(r, RcodeServerFailure, l.err, lookups, LookupOf(l), l.d)
  ELSE IF Len(l.records) > 0
  THEN ServeEncoded(r, lookups, l, RecordsToRRs(l.records))
  ELSE IF l.nameExists
  THEN successResponse(r, <<>>, lookups, LookupOf(l), l.d)
  ELSE errResponse(r, RcodeNameError, NoErr, lookups, LookupOf(l), l.d)

\* ServeDNS after adapterFromZone returned a
ServeAdapter(r, qName, st, d, t, env, rows, a) ==
  IF a.err # NoErr
  THEN errResponse(r, RcodeServerFailure, a.err, <<>>, NoLookup, d)
  ELSE ServeLookup(r,
         <<[adapter |-> a.adapter, name |-> qName, qtype |-> r.qtype]>>,
         LookupRecords(a.adapter, st, d, t, env, rows, qName, r.qtype))

ServeZone_noZoneCheck(r, qName, st, d, t, env, rows, zone) ==
  ServeAdapter(r, qName, st, d, t, env, rows, adapterFromZone(zone))

\* ServeDNS after the zone of the name is known
ServeZone(r, qName, st, d, t, env, rows, zone) ==
  IF zone = EmptyName
  THEN Outcome(<<>>, <<r>>, <<>>, NoLookup, env.nextRcode, NoErr, d)
  ELSE ServeAdapter(r, qName, st, d, t, env, rows, adapterFromZone(zone))

\* ServeDNS for the question r, with the static adapter st, the database
\* adapter d, the clock t, the store's rows and what the outside does (env)
ServeDNS(r, st, d, t, env, rows) ==
  ServeZone(r, StateName(r), st, d, t, env, rows, Matches(zones, StateName(r)))

(***************************************************************************)
(* The state.                                                              *)
(***************************************************************************)
VARIABLES
  static,            \* the static.Plugin of the PcePlugin
  file,              \* the file at static.Path: [exists, size, mtime, content]
  db,                \* the db.Plugin of the PcePlugin
  now,               \* the clock, in seconds
  rows,              \* the rows the store returns to nodeRecordsQuery
  fallthroughZones,  \* PcePlugin.fallthroughZones
  started,           \* whether parseConfig has run Connect and Start
  last,              \* the last ServeDNS: [called, req, out]
  arg,               \* the input of the function under study
  ret,               \* its result: [done, val]
  tasks              \* the tasks that run side by side, step by step

vars ==
  <<static, file, db, now, rows, fallthroughZones, started, last, arg, ret, tasks>>

(***************************************************************************)
(* The values the outside world supplies.                                  *)
(***************************************************************************)
EmptyNodes == [x \in {} |-> ""]

\* what a static file may hold, with the size of its text
FileVersions ==
  { [size |-> 44, content |-> [decodable |-> TRUE,
                               nodes |-> ("n1" :> "10.0.0.5") @@ ("N2" :> "fe80::1")]],
    [size |-> 26, content |-> [decodable |-> TRUE,
                               nodes |-> ("n1" :> "bogus")]],
    [size |-> 9, content |-> [decodable |-> FALSE, nodes |-> EmptyNodes]] }

NoFile ==
  [exists |-> FALSE, size |-> 0, mtime |-> ZeroMtime,
   content |-> [decodable |-> FALSE, nodes |-> EmptyNodes]]

\* what the store may return to nodeRecordsQuery
StoreRows ==
  { <<MkRow("n1", "10.0.0.5", "4", TRUE, <<"api">>),
      MkRow("N2", "fe80::1", "6", TRUE, <<>>)>>,
    <<MkRow("n1", "10.0.0.5", "4", TRUE, <<"api">>),
      MkRow("N2", "fe80::1", "9", FALSE, <<"web">>)>>,
    <<MkRow("n1", "bogus", "4", FALSE, <<"api">>)>> }

DataSources == {"", "postgres://pce"}

\* the arguments the fallthrough directive may carry
FallthroughArgs == {<<>>, <<MkName(<<"PCE", "internal">>, FALSE)>>}

\* fallthroughZones after parseConfig: untouched without the directive
FallthroughConfigs == {<<>>} \cup {setFallthroughZones(zs) : zs \in FallthroughArgs}

QNames ==
  { MkName(<<"n1", "bootstrap", "pce", "internal">>, TRUE),
    MkName(<<"N2", "Bootstrap", "PCE", "internal">>, TRUE),
    MkName(<<"bootstrap", "pce", "internal">>, TRUE),
    MkName(<<"n1-api", "pce", "internal">>, TRUE),
    MkName(<<"N2-web", "PCE", "Internal">>, TRUE),
    MkName(<<"xbootstrap", "pce", "internal">>, TRUE),
    MkName(<<"pce", "internal">>, TRUE),
    MkName(<<"internal">>, TRUE),
    MkName(<<"pce", "internal", "com">>, TRUE) }

QTypes == {TypeA, TypeTXT, TypeANY}

Requests == {MkReq(n, t) : n \in QNames, t \in QTypes}

\* what the store may do during one call: sql.Open fails, or the ping
\* fails, or the query ends in one of its four ways
StoreDoes ==
  { [openOk |-> FALSE, pingOk |-> TRUE, query |-> "ok"],
    [openOk |-> TRUE, pingOk |-> FALSE, query |-> "ok"] } \cup
  { [openOk |-> TRUE, pingOk |-> TRUE, query |-> q] :
      q \in {"ok", "query", "scan", "rows"} }

\* what the outside does during one ServeDNS: the store, Go's map order,
\* and the code the next plugin returns
Envs(rs) ==
  { [openOk |-> s.openOk, pingOk |-> s.pingOk, query |-> s.query,
     order |-> o, nextRcode |-> RcodeSuccess] :
      s \in StoreDoes, o \in Perms(NodeIds(rs)) }

NoCall ==
  [called |-> FALSE, req |-> MkReq(EmptyName, 0),
   out |-> Outcome(<<>>, <<>>, <<>>, NoLookup, RcodeSuccess, NoErr,
                   NewDbPlugin(""))]

NoRet == [done |-> FALSE, val |-> <<>>]

\* a task that runs ReadStatic: where it stands (pc) and its local variables
\* (the size and time of its Stat, the records it decoded), with the file it
\* decoded them from (src) and whether its refresh began after Close (late)
IdleTask(pc) ==
  [pc |-> pc, size |-> 0, mtime |-> ZeroMtime, recs |-> <<>>, src |-> NoFile,
   late |-> FALSE]

\* the tasks of a static adapter nobody has started: main is the caller of
\* Start and Close, loop the goroutine of Start; tick says a tick waits in
\* ticker.C, closed that the loop channel is closed, stopped that the ticker
\* is stopped; ran says Start called ReadStatic; dbClosed says the pool of
\* the database adapter was closed; origin is the file the cached records
\* were decoded from and whether a late refresh wrote them
NoTasks ==
  [main |-> IdleTask("init"), loop |-> IdleTask("none"),
   tick |-> FALSE, closed |-> FALSE, stopped |-> FALSE, ran |-> FALSE,
   dbClosed |-> FALSE,
   origin |-> [written |-> FALSE, src |-> NoFile, late |-> FALSE]]

(***************************************************************************)
(* The plugin in service: parseConfig, the refresh ticker, the queries.    *)
(***************************************************************************)
Init ==
  /\ static = NewStaticPlugin
  /\ file = NoFile
  /\ db \in {NewDbPlugin(ds) : ds \in DataSources}
  /\ now = 0
  /\ rows \in StoreRows
  /\ fallthroughZones \in FallthroughConfigs
  /\ started = FALSE
  /\ last = NoCall
  /\ tasks = NoTasks
  /\ arg = <<>>
  /\ ret = NoRet

\* parseConfig: db.Connect(), then static.Start()
Setup ==
  /\ ~last.called
  /\ ~started
  /\ \E s \in StoreDoes, statOk \in BOOLEAN :
       \E order \in Perms(DOMAIN file.content.nodes) :
         /\ db' = Connect(db, now, s.openOk, s.pingOk)
         /\ static' = Start(static, file, statOk, order)
  /\ started' = TRUE
  /\ UNCHANGED <<file, now, rows, fallthroughZones, last, arg, ret, tasks>>

\* a second passes
Tick ==
  /\ ~last.called
  /\ now < MaxTime
  /\ now' = now + 1
  /\ UNCHANGED <<static, file, db, rows, fallthroughZones, started, last, arg, ret, tasks>>

\* somebody writes the file
WriteFile ==
  /\ ~last.called
  /\ file.mtime < MaxMtime
  /\ \E v \in FileVersions :
       file' = [exists |-> TRUE, size |-> v.size, mtime |-> file.mtime + 1,
                content |-> v.content]
  /\ UNCHANGED <<static, db, now, rows, fallthroughZones, started, last, arg, ret, tasks>>

\* the ticker of the background goroutine fires: p.ReadStatic()
TickerRefresh ==
  /\ ~last.called
  /\ started
  /\ static.loop
  /\ \E statOk \in BOOLEAN :
       \E order \in Perms(DOMAIN file.content.nodes) :
         static' = ReadStatic(static, file, statOk, order)
  /\ UNCHANGED <<file, db, now, rows, fallthroughZones, started, last, arg, ret, tasks>>

\* a query arrives and ServeDNS handles it
Query ==
  /\ ~last.called
  /\ started
  /\ \E r \in Requests :
       \E env \in Envs(rows) :
         \E out \in {ServeDNS(r, static, db, now, env, rows)} :
           /\ last' = [called |-> TRUE, req |-> r, out |-> out]
           /\ db' = out.d
  /\ UNCHANGED <<static, file, now, rows, fallthroughZones, started, arg, ret, tasks>>

\* the server has taken what ServeDNS returned; what one ServeDNS did is
\* looked at right after it, before anything else happens
Return ==
  /\ last.called
  /\ last' = NoCall
  /\ UNCHANGED <<static, file, db, now, rows, fallthroughZones, started, arg, ret, tasks>>

Next ==
  \/ Setup
  \/ Tick
  \/ WriteFile
  \/ TickerRefresh
  \/ Query
  \/ Return

Spec == Init /\ [][Next]_vars

(***************************************************************************)
(* The functions on their own: the input is drawn in the first state and   *)
(* one step applies the function to it.                                    *)
(***************************************************************************)
\* the plugin is not in service while a function is studied
OutOfService ==
  /\ static = NewStaticPlugin
  /\ file = NoFile
  /\ db = NewDbPlugin("")
  /\ now = 0
  /\ rows = <<>>
  /\ fallthroughZones = <<>>
  /\ started = FALSE
  /\ last = NoCall
  /\ tasks = NoTasks

\* every sequence over S of at most n elements
SeqsUpTo(S, n) == UNION {[1..k -> S] : k \in 0..n}

\* records a cache may hold: names in either case, types the matcher tells
\* apart
LookupPool ==
  { MkRecord(MkName(<<h, "bootstrap", "pce", "internal">>, TRUE), t,
             DefaultTTL, ZeroContent) :
      h \in {"n1", "N1", "n2"}, t \in {TypeA, TypeCNAME, TypeTXT} }

LookupNames ==
  { MkName(<<"n1", "bootstrap", "pce", "internal">>, TRUE),
    MkName(<<"N1", "Bootstrap", "PCE", "internal">>, FALSE),
    MkName(<<"n3", "bootstrap", "pce", "internal">>, TRUE) }

LookupTypes == {TypeA, TypeAAAA, TypeTXT, TypeANY}

InitLookup ==
  /\ OutOfService
  /\ arg \in [records : SeqsUpTo(LookupPool, MaxRecs),
              name : LookupNames,
              qtype : LookupTypes]
  /\ ret = NoRet

\* static.Plugin.LookupRecords over the cache arg.records
ApplyLookup ==
  /\ ~ret.done
  /\ ret' = [done |-> TRUE,
             val |-> StaticLookupRecords(arg.records, arg.name, arg.qtype)]
  /\ UNCHANGED <<static, file, db, now, rows, fallthroughZones, started, last, arg, tasks>>

SpecLookup == InitLookup /\ [][ApplyLookup]_vars

\* records of every type recordToRR knows, and of one it does not
EncodePool ==
  { MkRecord(MkName(<<"n1", "pce", "internal">>, TRUE), TypeA, DbTTL,
             [ZeroContent EXCEPT !.IP = ParseIP("10.0.0.5")]),
    MkRecord(MkName(<<"n1", "pce", "internal">>, TRUE), TypeAAAA, DbTTL,
             [ZeroContent EXCEPT !.IP = ParseIP("fe80::1")]),
    MkRecord(MkName(<<"www", "pce", "internal">>, TRUE), TypeCNAME, DbTTL,
             [ZeroContent EXCEPT !.CNAME = MkName(<<"n1", "pce", "internal">>, FALSE)]),
    MkRecord(MkName(<<"_api", "_tcp", "pce", "internal">>, TRUE), TypeSRV, DbTTL,
             [ZeroContent EXCEPT !.Priority = 10, !.Weight = 5, !.Port = 443,
                                 !.Target = MkName(<<"n1", "pce", "internal">>, TRUE)]),
    MkRecord(MkName(<<"n1", "pce", "internal">>, TRUE), TypeTXT, DbTTL,
             [ZeroContent EXCEPT !.Data = <<"v", "1">>]),
    MkRecord(MkName(<<"n2", "pce", "internal">>, TRUE), TypeA, DbTTL,
             [ZeroContent EXCEPT !.IP = ParseIP("10.0.0.6")]),
    MkRecord(MkName(<<"n1", "pce", "internal">>, TRUE), TypeOther, DbTTL, ZeroContent) }

InitEncode ==
  /\ OutOfService
  /\ arg \in SeqsUpTo(EncodePool, MaxRecs)
  /\ ret = NoRet

\* util.RecordsToRRs over the records arg
ApplyEncode ==
  /\ ~ret.done
  /\ ret' = [done |-> TRUE, val |-> RecordsToRRs(arg)]
  /\ UNCHANGED <<static, file, db, now, rows, fallthroughZones, started, last, arg, tasks>>

SpecEncode == InitEncode /\ [][ApplyEncode]_vars

\* records an adapter may hand to ServeDNS: the cache of a static adapter
\* filled by hand, as the tests of the handler fill it
ServePool ==
  { MkRecord(MkName(<<"n1", "bootstrap", "pce", "internal">>, TRUE), t,
             DefaultTTL, [ZeroContent EXCEPT !.IP = ParseIP("10.0.0.5")]) :
      t \in {TypeA, TypeTXT, TypeOther} }

InitServe ==
  /\ OutOfService
  /\ arg \in [r : Requests,
              st : {[NewStaticPlugin EXCEPT !.records = rs] :
                      rs \in SeqsUpTo(ServePool, MaxRecs)},
              d : {NewDbPlugin(ds) : ds \in DataSources},
              rows : StoreRows]
  /\ ret = NoRet

\* one ServeDNS, whatever the store does during it
ApplyServe ==
  /\ ~ret.done
  /\ \E env \in Envs(arg.rows) :
       ret' = [done |-> TRUE,
               val |-> ServeDNS(arg.r, arg.st, arg.d, now, env, arg.rows)]
  /\ UNCHANGED <<static, file, db, now, rows, fallthroughZones, started, last, arg, tasks>>

SpecServe == InitServe /\ [][ApplyServe]_vars

(***************************************************************************)
(* What is claimed of the handler and of its adapters.                     *)
(***************************************************************************)
\* the labels of a, lower-cased, end with the labels of the zone z
EndsWithZone(a, z) ==
  LET n == Len(a.labels)
      k == Len(z.labels)
  IN /\ n >= k
     /\ \A i \in 1..k : Lower(a.labels[n - k + i]) = z.labels[i]

\* the types recordToRR has a case for
SupportedTypes == {TypeA, TypeAAAA, TypeCNAME, TypeSRV, TypeTXT}

\* C1: one ServeDNS, whatever the query, the adapter's answer and the
\* encoder's result, either writes exactly one message and does not call the
\* next handler, or calls the next handler exactly once and writes nothing.
C1_OneWriteOrOneDelegation ==
  ret.done =>
    \/ Len(ret.val.writes) = 1 /\ Len(ret.val.next) = 0
    \/ Len(ret.val.writes) = 0 /\ Len(ret.val.next) = 1

\* the encoder refused a record and ServeDNS wrote its one message
C1_Witness ==
  /\ ret.done
  /\ ret.val.err = ErrUnsupportedType
  /\ Len(ret.val.lookups) = 1
  /\ Len(ret.val.writes) = 1
  /\ Len(ret.val.next) = 0

\* C2: when the name is in a configured zone and the lookup reports no
\* records and that the name does not exist, ServeDNS hands the query to the
\* next handler if the zone can fall through, and otherwise writes NXDOMAIN
\* without calling the next handler.
C2_FallthroughOrNxdomain ==
  (/\ last.called
   /\ Len(last.out.lookups) = 1
   /\ last.out.lk.err = NoErr
   /\ Len(last.out.lk.records) = 0
   /\ ~last.out.lk.nameExists)
  => IF canFallthrough(fallthroughZones, Matches(zones, StateName(last.req)))
     THEN /\ last.out.next = <<last.req>>
          /\ last.out.writes = <<>>
     ELSE /\ Len(last.out.writes) = 1
          /\ last.out.writes[1].Rcode = RcodeNameError
          /\ last.out.next = <<>>

\* C3: when the adapter of the zone returns no records, nameExists and no
\* error, ServeDNS writes one NOERROR message with an empty answer section,
\* returns Success and does not call the next handler.
C3_NodataIsSuccess ==
  (/\ last.called
   /\ Len(last.out.lookups) = 1
   /\ last.out.lk.err = NoErr
   /\ Len(last.out.lk.records) = 0
   /\ last.out.lk.nameExists)
  => /\ Len(last.out.writes) = 1
     /\ last.out.writes[1].Rcode = RcodeSuccess
     /\ last.out.writes[1].Answer = <<>>
     /\ last.out.rcode = RcodeSuccess
     /\ last.out.next = <<>>

\* the static adapter knew the name but had no record of the type asked
C3_Witness ==
  /\ last.called
  /\ Len(last.out.lookups) = 1
  /\ last.out.lookups[1].adapter = "static"
  /\ last.out.lk.err = NoErr
  /\ last.out.lk.records = <<>>
  /\ last.out.lk.nameExists
  /\ last.out.writes[1].Rcode = RcodeSuccess

\* C4: when the name is under neither zone, ServeDNS calls the next handler
\* with the request it was given, asks no adapter and writes nothing.
C4_NoZoneDelegates ==
  (/\ last.called
   /\ ~EndsWithZone(last.req.name, ZoneDynamic)
   /\ ~EndsWithZone(last.req.name, ZoneBootstrap))
  => /\ last.out.next = <<last.req>>
     /\ last.out.lookups = <<>>
     /\ last.out.writes = <<>>

\* a name that only shares labels with the zone was handed on
C4_Witness ==
  /\ last.called
  /\ last.req.name = MkName(<<"pce", "internal", "com">>, TRUE)
  /\ last.out.next = <<last.req>>
  /\ last.out.lookups = <<>>

\* C5: when the lookup of the zone's adapter returns an error, ServeDNS
\* writes one SERVFAIL message without answers, returns SERVFAIL with that
\* error and does not call the next handler.
C5_LookupErrorIsServfail ==
  (/\ last.called
   /\ Len(last.out.lookups) = 1
   /\ last.out.lk.err # NoErr)
  => /\ Len(last.out.writes) = 1
     /\ last.out.writes[1].Rcode = RcodeServerFailure
     /\ last.out.writes[1].Answer = <<>>
     /\ last.out.rcode = RcodeServerFailure
     /\ last.out.err = last.out.lk.err
     /\ last.out.next = <<>>

\* the query of the database adapter failed
C5_Witness ==
  /\ last.called
  /\ Len(last.out.lookups) = 1
  /\ last.out.lookups[1].adapter = "db"
  /\ last.out.lk.err = ErrQuery
  /\ last.out.rcode = RcodeServerFailure

\* the type rule of a lookup
TypeMatches(qtype, rtype) ==
  \/ qtype = TypeANY
  \/ rtype = qtype
  \/ (qtype \in {TypeA, TypeAAAA} /\ rtype = TypeCNAME)

\* C6: a lookup returns exactly the records whose canonical name is the
\* canonical query name and whose type is the query type, or any type for an
\* ANY query, or CNAME for an A or AAAA query, in the order of the
\* collection.
C6_LookupReturnsExactlyMatching ==
  ret.done =>
    ret.val.records =
      SelectSeq(arg.records,
                LAMBDA rec : /\ CanonicalName(rec.FQDN) = CanonicalName(arg.name)
                             /\ TypeMatches(arg.qtype, rec.Type))

\* an A query got the CNAME of the name and not its TXT record
C6_Witness ==
  /\ ret.done
  /\ arg.qtype = TypeA
  /\ Len(arg.records) = 2
  /\ arg.records[1].Type = TypeTXT
  /\ arg.records[2].Type = TypeCNAME
  /\ arg.records[1].FQDN # arg.records[2].FQDN
  /\ ret.val.records = <<arg.records[2]>>

\* C7: the static adapter reports nameExists exactly when some cached
\* record, of whatever type, has the canonical query name; so a result with
\* records always comes with nameExists.
C7_NameExistsIffNameCached ==
  ret.done =>
    /\ ret.val.nameExists <=>
         \E i \in DOMAIN arg.records :
           CanonicalName(arg.records[i].FQDN) = CanonicalName(arg.name)
    /\ (Len(ret.val.records) > 0 => ret.val.nameExists)

\* the name is cached with another type only: no records, yet it exists
C7_Witness ==
  /\ ret.done
  /\ arg.qtype = TypeTXT
  /\ Len(arg.records) > 0
  /\ ret.val.records = <<>>
  /\ ret.val.nameExists

\* the records the database adapter builds from the rows of the store
SynthesizedNames(rs) ==
  UNION { {b.records[i].FQDN : i \in DOMAIN b.records} :
            b \in {buildDNSRecords(rs, o) : o \in Perms(NodeIds(rs))} }

C9_LongestZoneDecidesAdapter ==
  last.called =>
    IF EndsWithZone(last.req.name, ZoneBootstrap)
    THEN /\ Len(last.out.lookups) = 1
         /\ last.out.lookups[1].adapter = "static"
    ELSE IF EndsWithZone(last.req.name, ZoneDynamic)
    THEN /\ Len(last.out.lookups) = 1
         /\ last.out.lookups[1].adapter = "db"
    ELSE last.out.lookups = <<>>

\* a bootstrap name, typed in capitals, went to the static adapter
C9_Witness ==
  /\ last.called
  /\ last.req.name = MkName(<<"N2", "Bootstrap", "PCE", "internal">>, TRUE)
  /\ Len(last.out.lookups) = 1
  /\ last.out.lookups[1].adapter = "static"
  /\ Len(last.out.lk.records) = 1

\* C10: RecordsToRRs gives Success and one RR per record, in order, when
\* every record has a supported type (none for no records), and otherwise
\* nil answers, ServerFailure and the error, never a part of the answers.
C10_EncodeAllOrNothing ==
  ret.done =>
    IF \A i \in DOMAIN arg : arg[i].Type \in SupportedTypes
    THEN /\ ret.val.rcode = RcodeSuccess
         /\ ret.val.err = NoErr
         /\ ~ret.val.answersNil
         /\ Len(ret.val.answers) = Len(arg)
         /\ \A i \in DOMAIN arg :
              /\ ret.val.answers[i].Hdr.Name = arg[i].FQDN
              /\ ret.val.answers[i].Hdr.Rrtype = arg[i].Type
    ELSE /\ ret.val.answersNil
         /\ ret.val.answers = <<>>
         /\ ret.val.rcode = RcodeServerFailure
         /\ ret.val.err = ErrUnsupportedType

\* the second record was refused after the first had been encoded
C10_Witness ==
  /\ ret.done
  /\ Len(arg) = 2
  /\ arg[1].Type \in SupportedTypes
  /\ arg[2].Type = TypeOther
  /\ ret.val.answersNil
  /\ ret.val.rcode = RcodeServerFailure

(***************************************************************************)
(* splitTxtData on its own.                                                *)
(***************************************************************************)
\* a payload of L bytes whose bytes differ from place to place
Payload(L, k) == [i \in 1..L |-> (i * k) % 251]

InitSplit ==
  /\ OutOfService
  /\ arg \in {Payload(L, k) : L \in 0..MaxTxtLen, k \in {1, 7}}
  /\ ret = NoRet

\* splitTxtData over the payload arg
ApplySplit ==
  /\ ~ret.done
  /\ ret' = [done |-> TRUE, val |-> splitTxtData(arg)]
  /\ UNCHANGED <<static, file, db, now, rows, fallthroughZones, started, last, arg, tasks>>

SpecSplit == InitSplit /\ [][ApplySplit]_vars

\* the chunks put together again, in order
RECURSIVE Concat(_)
Concat(chunks) ==
  IF chunks = <<>> THEN <<>> ELSE Head(chunks) \o Concat(Tail(chunks))

\* C11: splitTxtData returns at least one chunk, each of at most 255 bytes
\* and all but the last of exactly 255, and the chunks in order make up the
\* payload again; 255 bytes give one chunk and 256 give two.
C11_SplitRoundTrip ==
  ret.done =>
    /\ Len(ret.val) >= 1
    /\ \A i \in DOMAIN ret.val : Len(ret.val[i]) <= 255
    /\ \A i \in 1..(Len(ret.val) - 1) : Len(ret.val[i]) = 255
    /\ Concat(ret.val) = arg
    /\ (Len(arg) = 255 => Len(ret.val) = 1)
    /\ (Len(arg) = 256 => Len(ret.val) = 2)

\* a payload of 600 bytes came back in three chunks
C11_Witness ==
  /\ ret.done
  /\ Len(arg) = 600
  /\ Len(ret.val) = 3
  /\ Len(ret.val[3]) = 90

(***************************************************************************)
(* ReadStatic on its own: the file is written now and then, ReadStatic is  *)
(* called, and ret.val keeps what each call found and left.                *)
(***************************************************************************)
\* what the file may hold
RefreshVersions ==
  { [size |-> 44, content |-> [decodable |-> TRUE,
                               nodes |-> ("n1" :> "10.0.0.5") @@ ("N2" :> "fe80::1")]],
    [size |-> 52, content |-> [decodable |-> TRUE,
                               nodes |-> ("n1" :> "bogus") @@ ("N2" :> "::ffff:10.0.0.5")]],
    [size |-> 9, content |-> [decodable |-> FALSE, nodes |-> EmptyNodes]] }

\* the TTL the adapter is given: the default, or one set by hand
StaticTTLs == {DefaultTTL, DefaultTTL + DefaultTTL}

InitRefresh ==
  /\ static \in {[NewStaticPlugin EXCEPT !.TTL = ttl] : ttl \in StaticTTLs}
  /\ file = NoFile
  /\ db = NewDbPlugin("")
  /\ now = 0
  /\ rows = <<>>
  /\ fallthroughZones = <<>>
  /\ started = FALSE
  /\ last = NoCall
  /\ tasks = NoTasks
  /\ arg = <<>>
  /\ ret = [done |-> FALSE, val |-> <<>>]

\* somebody writes the file
RefreshWrite ==
  /\ file.mtime < MaxWrites
  /\ \E v \in RefreshVersions :
       file' = [exists |-> TRUE, size |-> v.size, mtime |-> file.mtime + 1,
                content |-> v.content]
  /\ UNCHANGED <<static, db, now, rows, fallthroughZones, started, last, arg, ret, tasks>>

\* one call of ReadStatic; os.Open may fail on a file that is there
RefreshCall ==
  /\ Len(ret.val) < MaxCalls
  /\ \E openOk \in BOOLEAN, statOk \in BOOLEAN :
       \E order \in Perms(DOMAIN file.content.nodes) :
         \E run \in {ReadStaticRun(static,
                                   [file EXCEPT !.exists = file.exists /\ openOk],
                                   statOk, order)} :
           /\ static' = run.p
           /\ ret' = [done |-> TRUE,
                      val |-> Append(ret.val,
                                [file |-> file, before |-> static,
                                 after |-> run.p, outcome |-> run.outcome])]
  /\ UNCHANGED <<file, db, now, rows, fallthroughZones, started, last, arg, tasks>>

NextRefresh == RefreshWrite \/ RefreshCall

SpecRefresh == InitRefresh /\ [][NextRefresh]_vars

\* the cache of an adapter: records, size and modification time
CacheOf(p) == <<p.records, p.cachedSize, p.cachedMtime>>

\* the call decoded the file
Decoded(call) == call.outcome \in {"decode", "ok"}

\* the call failed to open, to stat or to decode the file
Failed(call) == call.outcome \in {"open", "stat", "decode"}

\* C12, as claimed: of two calls of ReadStatic with no write of the file
\* between them at most one decodes the file, and the second leaves the
\* cached records, size and modification time as they were.
C12_AtMostOneDecode ==
  \A i \in 1..(Len(ret.val) - 1) :
    ret.val[i].file = ret.val[i + 1].file =>
      /\ ~(Decoded(ret.val[i]) /\ Decoded(ret.val[i + 1]))
      /\ CacheOf(ret.val[i + 1].after) = CacheOf(ret.val[i + 1].before)

\* C12, amended: of two calls of ReadStatic with no write of the file
\* between them, when the first did not fail the second does not decode the
\* file and leaves the cached records, size and modification time as they
\* were.
C12_NoDecodeAfterGoodCall ==
  \A i \in 1..(Len(ret.val) - 1) :
    (ret.val[i].file = ret.val[i + 1].file /\ ~Failed(ret.val[i])) =>
      /\ ~Decoded(ret.val[i + 1])
      /\ CacheOf(ret.val[i + 1].after) = CacheOf(ret.val[i + 1].before)

\* the first call decoded the file and stored it, the second, which could
\* stat the same file, found it unchanged
C12_Witness ==
  /\ Len(ret.val) >= 2
  /\ ret.val[1].file = ret.val[2].file
  /\ ret.val[1].outcome = "ok"
  /\ Len(ret.val[1].after.records) > 0
  /\ ret.val[2].outcome = "unchanged"

\* the questions put to the static adapter before and after a refresh
RefreshQuestions ==
  { [name |-> MkName(<<h, "bootstrap", "pce", "internal">>, TRUE), qtype |-> t] :
      h \in {"n1", "N2", "n3"}, t \in {TypeA, TypeAAAA, TypeANY} }

\* C13: a call of ReadStatic that fails to open, to stat or to decode the
\* file leaves the cached records, size and modification time as they were,
\* so that every lookup returns after it what it returned before it.
C13_FailedRefreshKeepsCache ==
  \A i \in DOMAIN ret.val :
    Failed(ret.val[i]) =>
      /\ CacheOf(ret.val[i].after) = CacheOf(ret.val[i].before)
      /\ \A q \in RefreshQuestions :
           StaticLookupRecords(ret.val[i].after.records, q.name, q.qtype)
             = StaticLookupRecords(ret.val[i].before.records, q.name, q.qtype)

\* a file that does not decode was written over a good one, then it could not
\* be opened, and the records of the good one are still served
C13_Witness ==
  /\ Len(ret.val) >= 3
  /\ ret.val[1].outcome = "ok"
  /\ ret.val[2].outcome = "decode"
  /\ ret.val[2].file # ret.val[1].file
  /\ ret.val[3].outcome = "open"
  /\ Len(ret.val[3].after.records) = 2
  /\ static.records = ret.val[1].after.records

\* the entries of the nodes map whose address parses as an IP
ValidNodes(nodes) == {n \in DOMAIN nodes : ParseIP(nodes[n]).ok}

\* the record the claim expects for the entry n of the nodes map
ExpectedStatic(nodes, n, ttl) ==
  [FQDN |-> MkName(<<Lower(n), "bootstrap", "pce", "internal">>, TRUE),
   Type |-> IF ParseIP(nodes[n]).v4 THEN TypeA ELSE TypeAAAA,
   TTL |-> ttl,
   Content |-> [ZeroContent EXCEPT !.IP = ParseIP(nodes[n])]]

\* C14: after a call of ReadStatic that stored a changed file the cache
\* holds exactly one record for each entry of the nodes map whose address
\* parses, none for the others, each with the canonical name of
\* <node>.bootstrap.pce.internal., type A for an IPv4 address and AAAA
\* otherwise, and the adapter's TTL; and a file that decodes never makes the
\* call fail, malformed addresses or not.
C14_RefreshBuildsOneRecordPerValidNode ==
  \A i \in DOMAIN ret.val :
    LET call == ret.val[i]
        nodes == call.file.content.nodes
    IN /\ call.outcome = "ok" =>
            /\ Len(call.after.records) = Cardinality(ValidNodes(nodes))
            /\ {call.after.records[j] : j \in DOMAIN call.after.records}
                 = {ExpectedStatic(nodes, n, call.before.TTL) : n \in ValidNodes(nodes)}
            /\ call.after.cachedSize = call.file.size
            /\ call.after.cachedMtime = call.file.mtime
       /\ call.outcome = "decode" => ~call.file.content.decodable

\* a file with one malformed address and one IPv4-mapped address was stored:
\* one A record, for the second only
C14_Witness ==
  /\ Len(ret.val) >= 1
  /\ ret.val[1].outcome = "ok"
  /\ \E n \in DOMAIN ret.val[1].file.content.nodes :
       ~ParseIP(ret.val[1].file.content.nodes[n]).ok
  /\ Len(ret.val[1].after.records) = 1
  /\ ret.val[1].after.records[1].Type = TypeA
  /\ ret.val[1].after.records[1].FQDN
       = MkName(<<"n2", "bootstrap", "pce", "internal">>, TRUE)

(***************************************************************************)
(* loadNodeRecords on its own: the store, which is connected and answers,  *)
(* returns the rows arg, and a query for a name of the zone is served.     *)
(***************************************************************************)
\* rows the store may return: default and other addresses, with and without
\* roles, addresses that do not parse, families that are neither 4 nor 6
RowPool ==
  { MkRow("n1", "10.0.0.5", "4", TRUE, <<>>),
    MkRow("n1", "10.0.0.6", "4", FALSE, <<"api">>),
    MkRow("n1", "bogus", "4", FALSE, <<"web">>),
    MkRow("n1", "bogus", "4", TRUE, <<>>),
    MkRow("n1", "fe80::1", "6", FALSE, <<"api", "web">>),
    MkRow("N2", "fe80::1", "6", TRUE, <<"web">>),
    MkRow("N2", "10.0.0.5", "9", FALSE, <<"api">>),
    MkRow("N2", "bogus", "9", FALSE, <<>>),
    MkRow("N2", "10.0.0.6", "4", FALSE, <<>>) }

\* a database adapter whose handle is installed
ConnectedDb == [NewDbPlugin("postgres://pce") EXCEPT !.db = TRUE]

\* the question served from the rows
LoadRequest == MkReq(MkName(<<"n1-api", "pce", "internal">>, TRUE), TypeA)

InitLoad ==
  /\ OutOfService
  /\ arg \in SeqsUpTo(RowPool, MaxRows)
  /\ ret = NoRet

\* one loadNodeRecords over the rows arg, and one ServeDNS over them
ApplyLoad ==
  /\ ~ret.done
  /\ \E order \in Perms(NodeIds(arg)) :
       \E env \in {[openOk |-> TRUE, pingOk |-> TRUE, query |-> "ok",
                    order |-> order, nextRcode |-> RcodeSuccess]} :
         ret' = [done |-> TRUE,
                 val |-> [l |-> loadNodeRecords(ConnectedDb, now, env, arg),
                          out |-> ServeDNS(LoadRequest, NewStaticPlugin,
                                           ConnectedDb, now, env, arg)]]
  /\ UNCHANGED <<static, file, db, now, rows, fallthroughZones, started, last, arg, tasks>>

SpecLoad == InitLoad /\ [][ApplyLoad]_vars

\* the name <node>-<role>.pce.internal., canonical
RoleFqdn(nodeId, role) ==
  MkName(<<Lower(nodeId) \o "-" \o role, "pce", "internal">>, TRUE)

\* the roles of the catalog
CatalogRoles == {RolesList[i] : i \in DOMAIN RolesList}

\* the rows of the node that carry the role
Carriers(rs, nodeId, role) ==
  {i \in DOMAIN rs : /\ rs[i].nodeId = nodeId
                     /\ \E k \in DOMAIN rs[i].Roles : rs[i].Roles[k] = role}

\* the places of the records with the name
RecordsAt(records, fqdn) == {j \in DOMAIN records : records[j].FQDN = fqdn}

\* the load succeeded
LoadOk == ret.done /\ ret.val.l.err = NoErr

\* C15, as claimed: for every node with a default address, a role of the
\* catalog that no row of the node carries has a record at
\* <node>-<role>.pce.internal. with the default address, and a role that a
\* row carries has records with the addresses it is assigned to only, none
\* added for the default address.
C15_FallbackToDefault ==
  LoadOk =>
    \A n \in NodeIds(arg), role \in CatalogRoles :
      HasDefault(arg, n) =>
        IF Carriers(arg, n, role) = {}
        THEN \E j \in RecordsAt(ret.val.l.records, RoleFqdn(n, role)) :
               ret.val.l.records[j].Content.IP.text = DefaultRow(arg, n).Address
        ELSE /\ \A j \in RecordsAt(ret.val.l.records, RoleFqdn(n, role)) :
                  \E i \in Carriers(arg, n, role) :
                    ret.val.l.records[j].Content.IP = ParseIP(arg[i].Address)
             /\ Cardinality(RecordsAt(ret.val.l.records, RoleFqdn(n, role)))
                  <= Cardinality(Carriers(arg, n, role))

\* C15, amended: the same, for a default address that parses as an IP.
C15_FallbackToParsedDefault ==
  LoadOk =>
    \A n \in NodeIds(arg), role \in CatalogRoles :
      HasDefault(arg, n) =>
        IF Carriers(arg, n, role) = {}
        THEN ParseIP(DefaultRow(arg, n).Address).ok =>
               \E j \in RecordsAt(ret.val.l.records, RoleFqdn(n, role)) :
                 /\ ret.val.l.records[j].Content.IP.ok
                 /\ ret.val.l.records[j].Content.IP.text = DefaultRow(arg, n).Address
        ELSE /\ \A j \in RecordsAt(ret.val.l.records, RoleFqdn(n, role)) :
                  \E i \in Carriers(arg, n, role) :
                    ret.val.l.records[j].Content.IP = ParseIP(arg[i].Address)
             /\ Cardinality(RecordsAt(ret.val.l.records, RoleFqdn(n, role)))
                  <= Cardinality(Carriers(arg, n, role))

\* n1 has a default address and api on another address: api is answered
\* from that address, web from the default one
C15_Witness ==
  /\ LoadOk
  /\ arg = <<MkRow("n1", "10.0.0.5", "4", TRUE, <<>>),
             MkRow("n1", "10.0.0.6", "4", FALSE, <<"api">>)>>
  /\ Len(ret.val.l.records) = 2
  /\ \E j \in DOMAIN ret.val.l.records :
       /\ ret.val.l.records[j].FQDN = MkName(<<"n1-web", "pce", "internal">>, TRUE)
       /\ ret.val.l.records[j].Content.IP.text = "10.0.0.5"

\* the rows of the node that carry the role and whose address parses
ParsedCarriers(rs, nodeId, role) ==
  {i \in Carriers(rs, nodeId, role) : ParseIP(rs[i].Address).ok}

\* C16, as claimed: after a load that succeeds, every node with a default
\* address has at least one record at <node>-<role>.pce.internal. for every
\* role of the catalog.
C16_EveryRoleResolves ==
  LoadOk =>
    \A n \in NodeIds(arg), role \in CatalogRoles :
      HasDefault(arg, n) =>
        RecordsAt(ret.val.l.records, RoleFqdn(n, role)) # {}

\* C16, amended: after a load that succeeds, a node with a default address
\* has a record at <node>-<role>.pce.internal. for every role of the catalog
\* that either is carried by a row whose address parses, or is carried by no
\* row while the default address parses.
C16_EveryRoleWithParsedAddressResolves ==
  LoadOk =>
    \A n \in NodeIds(arg), role \in CatalogRoles :
      (/\ HasDefault(arg, n)
       /\ IF Carriers(arg, n, role) = {}
          THEN ParseIP(DefaultRow(arg, n).Address).ok
          ELSE ParsedCarriers(arg, n, role) # {})
        => RecordsAt(ret.val.l.records, RoleFqdn(n, role)) # {}

\* N2 has a default address carrying web only: both N2-web and N2-api resolve
C16_Witness ==
  /\ LoadOk
  /\ arg = <<MkRow("N2", "fe80::1", "6", TRUE, <<"web">>)>>
  /\ RecordsAt(ret.val.l.records, MkName(<<"n2-api", "pce", "internal">>, TRUE)) # {}
  /\ RecordsAt(ret.val.l.records, MkName(<<"n2-web", "pce", "internal">>, TRUE)) # {}

\* a row whose family is neither 4 nor 6
BadFamily(row) == row.AddressFamily \notin {"4", "6"}

\* C17: when a row of the store has a family other than 4 or 6, the load
\* fails and returns no records, and the query is answered ServerFailure.
C17_BadFamilyFailsLoad ==
  (ret.done /\ \E i \in DOMAIN arg : BadFamily(arg[i])) =>
    /\ ret.val.l.err # NoErr
    /\ ret.val.l.records = <<>>
    /\ ret.val.out.rcode = RcodeServerFailure

\* C18: a row whose address does not parse makes no record and no failure:
\* a load fails only over a row whose address parses, and after a load that
\* succeeds every record carries a parsed address and every row whose
\* address parses has its records, whatever the other rows are.
C18_BadAddressSkipped ==
  ret.done =>
    /\ ret.val.l.err # NoErr =>
         \E i \in DOMAIN arg : ParseIP(arg[i].Address).ok /\ BadFamily(arg[i])
    /\ ret.val.l.err = NoErr =>
         /\ \A j \in DOMAIN ret.val.l.records :
              /\ ret.val.l.records[j].Content.IP.ok
              /\ \E i \in DOMAIN arg :
                   ret.val.l.records[j].Content.IP = ParseIP(arg[i].Address)
         /\ \A i \in DOMAIN arg :
              ParseIP(arg[i].Address).ok =>
                \A k \in DOMAIN arg[i].Roles :
                  \E j \in RecordsAt(ret.val.l.records,
                                     RoleFqdn(arg[i].nodeId, arg[i].Roles[k])) :
                    ret.val.l.records[j].Content.IP = ParseIP(arg[i].Address)

\* a row of n1 that does not parse stands between a row of n1 and a row of
\* N2 that do: the load succeeds with the records of the two
C18_Witness ==
  /\ LoadOk
  /\ arg = <<MkRow("n1", "10.0.0.6", "4", FALSE, <<"api">>),
             MkRow("n1", "bogus", "4", FALSE, <<"web">>),
             MkRow("N2", "fe80::1", "6", TRUE, <<"web">>)>>
  /\ Len(ret.val.l.records) = 3
  /\ RecordsAt(ret.val.l.records, MkName(<<"n1-web", "pce", "internal">>, TRUE)) = {}

(***************************************************************************)
(* The connection of the database adapter on its own: parseConfig calls    *)
(* Connect once, then lookups follow one another while the clock advances  *)
(* and the store is up or down.  ret.val is the log of the calls.          *)
(***************************************************************************)
\* the rows the store holds
ConnectRows == <<MkRow("n1", "10.0.0.5", "4", TRUE, <<>>)>>

\* what the store does during one call: open, ping, and how the query ends
ConnectEnvs ==
  { [openOk |-> o, pingOk |-> p, query |-> q, order |-> <<"n1">>,
     nextRcode |-> RcodeSuccess] :
      o \in BOOLEAN, p \in BOOLEAN, q \in {"ok", "query"} }

InitConnect ==
  /\ static = NewStaticPlugin
  /\ file = NoFile
  /\ db \in {NewDbPlugin(ds) : ds \in DataSources}
  /\ now = 0
  /\ rows = ConnectRows
  /\ fallthroughZones = <<>>
  /\ started = FALSE
  /\ last = NoCall
  /\ tasks = NoTasks
  /\ arg = <<>>
  /\ ret = NoRet

\* a second passes
ConnectTick ==
  /\ now < MaxClock
  /\ now' = now + 1
  /\ UNCHANGED <<static, file, db, rows, fallthroughZones, started, last, arg, ret, tasks>>

\* parseConfig: pcePlugin.db.Connect()
ConnectSetup ==
  /\ ~started
  /\ \E env \in ConnectEnvs :
       \E c \in {ConnectRun(db, now, env.openOk, env.pingOk)} :
         /\ db' = c.d
         /\ ret' = [ret EXCEPT !.val = Append(@,
                      [kind |-> "setup", t |-> now, env |-> env, before |-> db,
                       after |-> c.d, called |-> TRUE, opened |-> c.opened,
                       pinged |-> c.pinged, closed |-> c.closed,
                       queried |-> FALSE, err |-> NoErr])]
  /\ started' = TRUE
  /\ UNCHANGED <<static, file, now, rows, fallthroughZones, last, arg, tasks>>

\* one lookup of the database adapter: loadNodeRecords and the Connect it
\* makes when no handle is installed
ConnectLookup ==
  /\ started
  /\ Len(ret.val) < MaxCalls
  /\ \E env \in ConnectEnvs :
       \E l \in {loadNodeRecords(db, now, env, rows)},
          c \in {IF ~db.db THEN ConnectRun(db, now, env.openOk, env.pingOk)
                 ELSE Connected(db, FALSE, FALSE, FALSE)} :
         /\ db' = l.d
         /\ ret' = [ret EXCEPT !.val = Append(@,
                      [kind |-> "lookup", t |-> now, env |-> env, before |-> db,
                       after |-> l.d, called |-> ~db.db, opened |-> c.opened,
                       pinged |-> c.pinged, closed |-> c.closed,
                       queried |-> l.queried,
                       err |-> l.err])]
  /\ UNCHANGED <<static, file, now, rows, fallthroughZones, started, last, arg, tasks>>

NextConnect == ConnectTick \/ ConnectSetup \/ ConnectLookup

SpecConnect == InitConnect /\ [][NextConnect]_vars

\* the call made a connection attempt: it passed the cooldown check
Attempted(call) == call.after.lastConnectAttempt # call.before.lastConnectAttempt

\* the call came less than the cooldown after the previous attempt
InCooldown(call) == Since(call.t, call.before.lastConnectAttempt) < ConnectCooldown

\* C19: a Connect made less than 2 seconds after the previous attempt calls
\* neither open nor ping and leaves the handle and the time of the last
\* attempt as they were; so two connection attempts of successive calls are
\* at least 2 seconds apart.
C19_ConnectThrottled ==
  /\ \A i \in DOMAIN ret.val :
       (ret.val[i].called /\ InCooldown(ret.val[i])) =>
         /\ ~ret.val[i].opened
         /\ ~ret.val[i].pinged
         /\ ret.val[i].after = ret.val[i].before
  /\ \A i, j \in DOMAIN ret.val :
       (i < j /\ (Attempted(ret.val[i]) \/ ret.val[i].opened)
              /\ (Attempted(ret.val[j]) \/ ret.val[j].opened)) =>
         ret.val[j].t - ret.val[i].t >= ConnectCooldown

\* the store is down: setup tries at 0, a lookup at 1 is throttled, a lookup
\* at 2 tries again
C19_Witness ==
  /\ Len(ret.val) = 3
  /\ \A i \in 1..3 : ~ret.val[i].env.openOk /\ ret.val[i].before.DataSource # ""
  /\ ret.val[1].t = 0 /\ ret.val[1].opened
  /\ ret.val[2].t = 1 /\ ret.val[2].called /\ ~ret.val[2].opened
  /\ ret.val[3].t = 2 /\ ret.val[3].opened

\* C20: a lookup of an adapter without a handle calls Connect first (past
\* the cooldown, the attempt is made at the time of the lookup); when the
\* handle is still missing the lookup fails with the not-initialized error
\* and sends no query, and when Connect installed the handle the same lookup
\* queries the store.
C20_LazyConnect ==
  \A i \in DOMAIN ret.val :
    (ret.val[i].kind = "lookup" /\ ~ret.val[i].before.db) =>
      /\ ~InCooldown(ret.val[i]) =>
           /\ ret.val[i].after.lastConnectAttempt = ret.val[i].t
           /\ (/\ ret.val[i].before.DataSource # ""
               /\ ret.val[i].env.openOk
               /\ ret.val[i].env.pingOk) => ret.val[i].after.db
      /\ ~ret.val[i].after.db =>
           /\ ret.val[i].err = ErrNotInitialized
           /\ ~ret.val[i].queried
      /\ ret.val[i].after.db =>
           /\ ret.val[i].queried
           /\ ret.val[i].err # ErrNotInitialized

\* the store was down at setup; a first lookup fails not-initialized without
\* a query, a later one connects and queries
C20_Witness ==
  /\ Len(ret.val) = 3
  /\ ~ret.val[1].after.db
  /\ ~ret.val[2].before.db /\ ~ret.val[2].after.db
  /\ ret.val[2].err = ErrNotInitialized /\ ~ret.val[2].queried
  /\ ~ret.val[3].before.db /\ ret.val[3].after.db
  /\ ret.val[3].queried /\ ret.val[3].err = NoErr

(***************************************************************************)
(* The static adapter step by step: the caller of Start and Close (main),  *)
(* the goroutine of Start (loop), the ticker, a writer that modifies the   *)
(* file in place, and lookups.  ReadStatic is taken apart at every point   *)
(* where another task can run: os.Open, file.Stat, the comparison under    *)
(* RLock, parseStaticFile, and the three assignments under Lock.           *)
(***************************************************************************)
\* the names of the two tasks that run ReadStatic
TaskIds == {"main", "loop"}

\* the intervals and paths Start may find in the adapter
TaskIntervals == {0 - 1, 0, DefaultInterval}
TaskPaths == {"", DefaultPath}

\* the question the lookups ask
TaskQuestion == MkReq(MkName(<<"n1", "bootstrap", "pce", "internal">>, TRUE), TypeANY)

InitTask ==
  /\ static \in {[NewStaticPlugin EXCEPT !.Interval = i, !.Path = p] :
                   i \in TaskIntervals, p \in TaskPaths}
  /\ file = NoFile
  /\ db = NewDbPlugin("")
  /\ now = 0
  /\ rows = <<>>
  /\ fallthroughZones = <<>>
  /\ started = FALSE
  /\ last = NoCall
  /\ arg = <<>>
  /\ ret = NoRet
  /\ tasks = NoTasks

\* where a task goes when its ReadStatic returns
AfterRead(t) == IF t = "main" THEN "returned" ELSE "select"

\* the task leaves ReadStatic
EndRead(ts, t) == [ts EXCEPT ![t] = IdleTask(AfterRead(t))]

TaskStart_loopsAnyway ==
  /\ tasks.main.pc = "init"
  /\ IF static.loop \/ static.Path = ""
     THEN /\ tasks' = [tasks EXCEPT !.main.pc = "returned"]
          /\ static' = static
     ELSE /\ tasks' = [tasks EXCEPT !.main.pc = "open", !.ran = TRUE,
                                    !.loop.pc = "select"]
          /\ static' = [static EXCEPT
                          !.TTL = IF static.TTL = 0 THEN DefaultTTL ELSE static.TTL,
                          !.loop = TRUE]
  /\ started' = TRUE
  /\ UNCHANGED <<file, db, now, rows, fallthroughZones, last, arg, ret>>

\* Start up to its call of ReadStatic: the three early returns, the ticker,
\* the channel and the goroutine
TaskStart ==
  /\ tasks.main.pc = "init"
  /\ IF static.loop \/ static.Path = ""
     THEN /\ tasks' = [tasks EXCEPT !.main.pc = "returned"]
          /\ static' = static
     ELSE IF static.Interval <= 0
     THEN /\ tasks' = [tasks EXCEPT !.main.pc = "open", !.ran = TRUE]
          /\ static' = [static EXCEPT
                          !.TTL = IF static.TTL = 0 THEN DefaultTTL ELSE static.TTL]
     ELSE /\ tasks' = [tasks EXCEPT !.main.pc = "open", !.ran = TRUE,
                                    !.loop.pc = "select"]
          /\ static' = [static EXCEPT
                          !.TTL = IF static.TTL = 0 THEN DefaultTTL ELSE static.TTL,
                          !.loop = TRUE]
  /\ started' = TRUE
  /\ UNCHANGED <<file, db, now, rows, fallthroughZones, last, arg, ret>>

\* the ticker sends a tick; ticker.C holds one tick at most
TickerFire ==
  /\ tasks.loop.pc # "none"
  /\ ~tasks.stopped
  /\ ~tasks.tick
  /\ tasks' = [tasks EXCEPT !.tick = TRUE]
  /\ UNCHANGED <<static, file, db, now, rows, fallthroughZones, started, last, arg, ret>>

\* select takes case <-ticker.C and calls ReadStatic
LoopTick ==
  /\ tasks.loop.pc = "select"
  /\ tasks.tick
  /\ tasks' = [tasks EXCEPT !.tick = FALSE, !.loop.pc = "open",
                            !.loop.late = (tasks.main.pc = "closed")]
  /\ UNCHANGED <<static, file, db, now, rows, fallthroughZones, started, last, arg, ret>>

LoopStop_noReturn ==
  /\ tasks.loop.pc = "select"
  /\ tasks.closed
  /\ ~tasks.stopped
  /\ tasks' = [tasks EXCEPT !.stopped = TRUE]
  /\ UNCHANGED <<static, file, db, now, rows, fallthroughZones, started, last, arg, ret>>

\* select takes case <-loop: ticker.Stop() and return
LoopStop ==
  /\ tasks.loop.pc = "select"
  /\ tasks.closed
  /\ tasks' = [tasks EXCEPT !.stopped = TRUE, !.loop.pc = "done"]
  /\ UNCHANGED <<static, file, db, now, rows, fallthroughZones, started, last, arg, ret>>

\* os.Open
ReadOpen(t) ==
  /\ tasks[t].pc = "open"
  /\ tasks' = IF file.exists THEN [tasks EXCEPT ![t].pc = "stat"]
              ELSE EndRead(tasks, t)
  /\ UNCHANGED <<static, file, db, now, rows, fallthroughZones, started, last, arg, ret>>

\* file.Stat: the size and the time the file has now
ReadStat(t) ==
  /\ tasks[t].pc = "stat"
  /\ tasks' = [tasks EXCEPT ![t].pc = "check", ![t].size = file.size,
                            ![t].mtime = file.mtime]
  /\ UNCHANGED <<static, file, db, now, rows, fallthroughZones, started, last, arg, ret>>

\* the comparison with the cached size and time, under RLock
ReadCheck(t) ==
  /\ tasks[t].pc = "check"
  /\ tasks' = IF /\ tasks[t].size = static.cachedSize
                 /\ tasks[t].mtime = static.cachedMtime
              THEN EndRead(tasks, t)
              ELSE [tasks EXCEPT ![t].pc = "parse"]
  /\ UNCHANGED <<static, file, db, now, rows, fallthroughZones, started, last, arg, ret>>

\* parseStaticFile reads what the open file holds now
ReadParse(t) ==
  /\ tasks[t].pc = "parse"
  /\ \E order \in Perms(DOMAIN file.content.nodes) :
       \E c \in {parseStaticFile(file.content, static.TTL, order)} :
         tasks' = IF c.err # NoErr THEN EndRead(tasks, t)
                  ELSE [tasks EXCEPT ![t].pc = "write", ![t].recs = c.records,
                                     ![t].src = file]
  /\ UNCHANGED <<static, file, db, now, rows, fallthroughZones, started, last, arg, ret>>

WriteCache_pairOnly(p, t) ==
  [p EXCEPT !.cachedSize = t.size, !.cachedMtime = t.mtime]

\* the three assignments between p.mu.Lock() and p.mu.Unlock()
WriteCache(p, t) ==
  [p EXCEPT !.records = t.recs, !.cachedSize = t.size, !.cachedMtime = t.mtime]

\* the cache is replaced under Lock, and ReadStatic returns
ReadWrite(t) ==
  /\ tasks[t].pc = "write"
  /\ static' = WriteCache(static, tasks[t])
  /\ tasks' = [EndRead(tasks, t) EXCEPT
                 !.origin = [written |-> TRUE, src |-> tasks[t].src,
                             late |-> tasks[t].late]]
  /\ UNCHANGED <<file, db, now, rows, fallthroughZones, started, last, arg, ret>>

\* Close, called by the task that called Start, after Start returned
TaskClose ==
  /\ tasks.main.pc = "returned"
  /\ tasks' = [tasks EXCEPT !.main.pc = "closed",
                            !.closed = tasks.closed \/ static.loop]
  /\ static' = [static EXCEPT !.loop = FALSE]
  /\ UNCHANGED <<file, db, now, rows, fallthroughZones, started, last, arg, ret>>

\* somebody modifies the file in place
TaskEdit ==
  /\ file.mtime < MaxEdits
  /\ \E v \in RefreshVersions :
       file' = [exists |-> TRUE, size |-> v.size, mtime |-> file.mtime + 1,
                content |-> v.content]
  /\ UNCHANGED <<static, db, now, rows, fallthroughZones, started, last, arg, ret, tasks>>

\* a query is looked up, under RLock
TaskLookup ==
  /\ \E res \in {StaticLookupRecords(static.records, TaskQuestion.name,
                                     TaskQuestion.qtype)} :
       ret' = [done |-> TRUE, val |-> res]
  /\ UNCHANGED <<static, file, db, now, rows, fallthroughZones, started, last, arg, tasks>>

NextTask ==
  \/ TaskStart
  \/ TickerFire
  \/ LoopTick
  \/ LoopStop
  \/ \E t \in TaskIds : ReadOpen(t)
  \/ \E t \in TaskIds : ReadStat(t)
  \/ \E t \in TaskIds : ReadCheck(t)
  \/ \E t \in TaskIds : ReadParse(t)
  \/ \E t \in TaskIds : ReadWrite(t)
  \/ TaskClose
  \/ TaskEdit
  \/ TaskLookup

SpecTask == InitTask /\ [][NextTask]_vars

\* Start has returned
StartReturned == tasks.main.pc \in {"returned", "closed"}

\* a task is inside ReadStatic
Reading(t) == tasks[t].pc \in {"open", "stat", "check", "parse", "write"}

\* no goroutine, no ticker, no refresh under way
NoBackground ==
  /\ tasks.loop.pc = "none"
  /\ ~tasks.tick
  /\ ~static.loop

\* C21, as claimed: with an interval of zero or less, Start runs ReadStatic
\* once before it returns and starts no goroutine, and no refresh runs after
\* Start returned.
C21_OneRefreshNoLoop ==
  static.Interval <= 0 =>
    /\ NoBackground
    /\ StartReturned => (tasks.ran /\ \A t \in TaskIds : ~Reading(t))

\* C21, amended: the same, for an adapter whose path is not empty; with an
\* empty path Start runs no refresh at all.
C21_OneRefreshNoLoopWithPath ==
  static.Interval <= 0 =>
    /\ NoBackground
    /\ StartReturned =>
         /\ \A t \in TaskIds : ~Reading(t)
         /\ tasks.ran <=> static.Path # ""

\* Start returned with an interval of zero, the cache holds the file, no
\* goroutine exists, and the file was modified after that
C21_Witness ==
  /\ static.Interval <= 0
  /\ StartReturned
  /\ tasks.ran
  /\ tasks.origin.written
  /\ file.mtime > tasks.origin.src.mtime
  /\ tasks.loop.pc = "none"

\* a step of the goroutine inside ReadStatic
LoopRead ==
  \/ ReadOpen("loop")
  \/ ReadStat("loop")
  \/ ReadCheck("loop")
  \/ ReadParse("loop")
  \/ ReadWrite("loop")

\* a step of the caller of Start inside ReadStatic
MainRead ==
  \/ ReadOpen("main")
  \/ ReadStat("main")
  \/ ReadCheck("main")
  \/ ReadParse("main")
  \/ ReadWrite("main")

\* the scheduler runs every task that can run, the ticker goes on ticking,
\* and a select that finds a case ready again and again takes it in the end
\* (Go chooses among the ready cases at random)
FairTask ==
  /\ SpecTask
  /\ WF_vars(LoopRead)
  /\ WF_vars(MainRead)
  /\ WF_vars(TickerFire)
  /\ SF_vars(LoopTick)
  /\ SF_vars(LoopStop)

\* C22: once Close has closed the channel of a started adapter, the
\* goroutine leaves its loop and stops the ticker in the end, whether or not
\* it was inside ReadStatic when Close came.
C22_LoopExitsAfterClose ==
  tasks.closed ~> (tasks.loop.pc = "done" /\ tasks.stopped)

\* Close came while the goroutine was inside a refresh it began before
C22_Witness ==
  /\ tasks.closed
  /\ tasks.main.pc = "closed"
  /\ Reading("loop")
  /\ ~tasks.loop.late

\* the record sets a completed refresh can leave: every decoding of a file
\* the writer can write, in every order of its nodes
RefreshedSets ==
  {parseStaticFile(v.content, static.TTL, order).records :
     v \in {w \in RefreshVersions : w.content.decodable},
     order \in UNION {Perms(DOMAIN w.content.nodes) : w \in RefreshVersions}}

\* the lookup saw the whole record set of one refresh, or the empty cache
LookupSawOneRefresh ==
  ret.done =>
    \E rs \in RefreshedSets \cup {<<>>} :
      ret.val = StaticLookupRecords(rs, TaskQuestion.name, TaskQuestion.qtype)

\* the cached size and time are those of the file the records were decoded from
PairIsOfDecodedFile ==
  tasks.origin.written =>
    /\ static.cachedSize = tasks.origin.src.size
    /\ static.cachedMtime = tasks.origin.src.mtime

\* C23: a lookup sees the record set of one completed refresh, whole, and in
\* every state the cached size and modification time are those of the file
\* from which the cached records were decoded.
C23_CacheIsOneSnapshot == LookupSawOneRefresh /\ PairIsOfDecodedFile

(***************************************************************************)
(* Lookups of the database adapter side by side while no handle is         *)
(* installed: two tasks inside loadNodeRecords and Connect, step by step.  *)
(* db.Plugin has no lock, so every read and write of p.db and              *)
(* p.lastConnectAttempt is a step of its own.  tasks.opens are the times   *)
(* of the calls of sqlOpen, tasks.installs counts the assignments of p.db. *)
(***************************************************************************)
QueryIds == {"q1", "q2"}

InitRace ==
  /\ static = NewStaticPlugin
  /\ file = NoFile
  /\ db \in {Connect(NewDbPlugin(ds), 0, FALSE, FALSE) : ds \in DataSources}
  /\ now = 0
  /\ rows = <<>>
  /\ fallthroughZones = <<>>
  /\ started = TRUE
  /\ last = NoCall
  /\ arg = <<>>
  /\ ret = NoRet
  /\ tasks = [q1 |-> [pc |-> "idle", err |-> NoErr],
              q2 |-> [pc |-> "idle", err |-> NoErr],
              opens |-> <<>>, installs |-> 0]

\* a second passes
RaceTick ==
  /\ now < MaxClock
  /\ now' = now + 1
  /\ UNCHANGED <<static, file, db, rows, fallthroughZones, started, last, arg, ret, tasks>>

\* loadNodeRecords: if p.db == nil { p.Connect() }
LookupBegin(t) ==
  /\ tasks[t].pc = "idle"
  /\ tasks' = [tasks EXCEPT ![t].pc = IF db.db THEN "query" ELSE "since"]
  /\ UNCHANGED <<static, file, db, now, rows, fallthroughZones, started, last, arg, ret>>

\* Connect: if time.Since(p.lastConnectAttempt) < 2*time.Second { return }
ConnSince(t) ==
  /\ tasks[t].pc = "since"
  /\ tasks' = [tasks EXCEPT ![t].pc =
                 IF Since(now, db.lastConnectAttempt) < ConnectCooldown
                 THEN "recheck" ELSE "stamp"]
  /\ UNCHANGED <<static, file, db, now, rows, fallthroughZones, started, last, arg, ret>>

\* Connect: p.lastConnectAttempt = time.Now(), and the test of DataSource
ConnStamp(t) ==
  /\ tasks[t].pc = "stamp"
  /\ db' = [db EXCEPT !.lastConnectAttempt = now]
  /\ tasks' = [tasks EXCEPT ![t].pc = IF db.DataSource = "" THEN "recheck"
                                      ELSE "open"]
  /\ UNCHANGED <<static, file, now, rows, fallthroughZones, started, last, arg, ret>>

\* Connect: sqlOpen
ConnOpen(t) ==
  /\ tasks[t].pc = "open"
  /\ \E openOk \in BOOLEAN :
       tasks' = [tasks EXCEPT ![t].pc = IF openOk THEN "ping" ELSE "recheck",
                              !.opens = Append(@, now)]
  /\ UNCHANGED <<static, file, db, now, rows, fallthroughZones, started, last, arg, ret>>

\* Connect: db.PingContext, and db.Close() when it fails
ConnPing(t) ==
  /\ tasks[t].pc = "ping"
  /\ \E pingOk \in BOOLEAN :
       tasks' = [tasks EXCEPT ![t].pc = IF pingOk THEN "install" ELSE "recheck"]
  /\ UNCHANGED <<static, file, db, now, rows, fallthroughZones, started, last, arg, ret>>

\* Connect: p.db = db
ConnInstall(t) ==
  /\ tasks[t].pc = "install"
  /\ db' = [db EXCEPT !.db = TRUE]
  /\ tasks' = [tasks EXCEPT ![t].pc = "recheck", !.installs = @ + 1]
  /\ UNCHANGED <<static, file, now, rows, fallthroughZones, started, last, arg, ret>>

\* loadNodeRecords: the second test of p.db, after Connect
LookupRecheck(t) ==
  /\ tasks[t].pc = "recheck"
  /\ tasks' = IF db.db THEN [tasks EXCEPT ![t].pc = "query"]
              ELSE [tasks EXCEPT ![t].pc = "done", ![t].err = ErrNotInitialized]
  /\ UNCHANGED <<static, file, db, now, rows, fallthroughZones, started, last, arg, ret>>

\* loadNodeRecords: the query and what follows it
LookupQuery(t) ==
  /\ tasks[t].pc = "query"
  /\ \E q \in {"ok", "query"} :
       tasks' = [tasks EXCEPT ![t].pc = "done",
                              ![t].err = IF q = "ok" THEN NoErr ELSE ErrQuery]
  /\ UNCHANGED <<static, file, db, now, rows, fallthroughZones, started, last, arg, ret>>

NextRace ==
  \/ RaceTick
  \/ \E t \in QueryIds : LookupBegin(t)
  \/ \E t \in QueryIds : ConnSince(t)
  \/ \E t \in QueryIds : ConnStamp(t)
  \/ \E t \in QueryIds : ConnOpen(t)
  \/ \E t \in QueryIds : ConnPing(t)
  \/ \E t \in QueryIds : ConnInstall(t)
  \/ \E t \in QueryIds : LookupRecheck(t)
  \/ \E t \in QueryIds : LookupQuery(t)

SpecRace == InitRace /\ [][NextRace]_vars

\* C24: of the lookups that run side by side without a handle, at most one
\* calls open within one cooldown window, and at most one installs a handle.
C24_OneAttemptPerWindow ==
  /\ \A i, j \in DOMAIN tasks.opens :
       i < j => tasks.opens[j] - tasks.opens[i] >= ConnectCooldown
  /\ tasks.installs <= 1

\* the store let the call connect: a data source, an open and a ping that
\* succeed
StoreUp(call) ==
  /\ call.before.DataSource # ""
  /\ call.env.openOk
  /\ call.env.pingOk

\* C25: Connect installs the handle only when the open and the ping both
\* succeed; with an empty data source, a failed open or a failed ping the
\* handle stays absent, a connection that was opened and not installed is
\* closed, and the next lookup calls Connect again, which tries again once
\* the cooldown is over.
C25_HandleOnlyOnSuccess ==
  \A i \in DOMAIN ret.val :
    (ret.val[i].called /\ ~ret.val[i].before.db) =>
      /\ ret.val[i].after.db =>
           (StoreUp(ret.val[i]) /\ ret.val[i].opened /\ ret.val[i].pinged)
      /\ ~StoreUp(ret.val[i]) => ~ret.val[i].after.db
      /\ ret.val[i].closed <=>
           (ret.val[i].opened /\ ret.val[i].env.openOk /\ ~ret.val[i].after.db)
      /\ (~ret.val[i].after.db /\ i < Len(ret.val)) =>
           /\ ret.val[i + 1].called
           /\ ~InCooldown(ret.val[i + 1]) => Attempted(ret.val[i + 1])
           /\ (~InCooldown(ret.val[i + 1]) /\ ret.val[i + 1].before.DataSource # "")
                => ret.val[i + 1].opened

\* the ping failed at setup and the connection was closed; a lookup inside
\* the cooldown tried nothing; a later lookup tried again and connected
C25_Witness ==
  /\ Len(ret.val) = 3
  /\ ret.val[1].opened /\ ret.val[1].pinged /\ ret.val[1].closed
  /\ ~ret.val[1].after.db
  /\ ret.val[2].called /\ ~ret.val[2].opened /\ ~ret.val[2].after.db
  /\ ret.val[3].called /\ ret.val[3].opened /\ ret.val[3].after.db
  /\ ~ret.val[3].closed

\* the name <node>.pce.internal., canonical
BareFqdn(nodeId) == MkName(<<Lower(nodeId), "pce", "internal">>, TRUE)

\* C26: after a load that succeeds, every row flagged default whose address
\* parses and whose family is 4 or 6 has a record at <node>.pce.internal.
\* with that address, with or without roles.
C26_DefaultRowHasBareName ==
  LoadOk =>
    \A i \in DOMAIN arg :
      (arg[i].IsDefault /\ ParseIP(arg[i].Address).ok /\ ~BadFamily(arg[i])) =>
        \E j \in RecordsAt(ret.val.l.records, BareFqdn(arg[i].nodeId)) :
          ret.val.l.records[j].Content.IP = ParseIP(arg[i].Address)

\* C27: once Close has returned, the goroutine begins no refresh, and the
\* cache is never written by a refresh that began after Close returned.
C27_NoRefreshAfterClose ==
  /\ \A t \in TaskIds : ~(Reading(t) /\ tasks[t].late)
  /\ ~tasks.origin.late

(***************************************************************************)
(* The handler that tries the two sources in turn                          *)
(* (internal/plugin/handler.go: ServeDNS with tryServe).                   *)
(***************************************************************************)
\* p.zones of this handler, which nothing populates
TryZones == <<>>

\* tryServe returns -1 when the source has no records
NoServe == 0 - 1

\* a lookup of a source of this handler: records and error only
TryResult(l, d) ==
  [records |-> l.records, nameExists |-> FALSE, err |-> l.err, d |-> d]

\* what one source looked up adds to the lookups made
TryLookup(adapter, r) ==
  [adapter |-> adapter, name |-> StateName(r), qtype |-> r.qtype]

TryServe_nodata(r, lookups, l) ==
  IF l.err # NoErr
  THEN errResponse(r, RcodeServerFailure, l.err, lookups, LookupOf(l), l.d)
  ELSE ServeEncoded(r, lookups, l, RecordsToRRs(l.records))

\* tryServe after the source returned l
TryServe(r, lookups, l) ==
  IF l.err # NoErr
  THEN errResponse(r, RcodeServerFailure, l.err, lookups, LookupOf(l), l.d)
  ELSE IF Len(l.records) > 0
  THEN ServeEncoded(r, lookups, l, RecordsToRRs(l.records))
  ELSE Outcome(<<>>, <<>>, lookups, LookupOf(l), NoServe, NoErr, l.d)

\* ServeDNS after both sources returned no records
TryFallthrough(r, fz, env, s) ==
  IF canFallthrough(fz, Matches(TryZones, StateName(r)))
  THEN Outcome(<<>>, <<r>>, s.lookups, s.lk, env.nextRcode, NoErr, s.d)
  ELSE errResponse(r, RcodeNameError, NoErr, s.lookups, s.lk, s.d)

\* ServeDNS after tryServe("db", ...) returned s
TryDbServed(r, fz, env, s) ==
  IF s.rcode # NoServe THEN s ELSE TryFallthrough(r, fz, env, s)

\* ServeDNS after tryServe("static", ...) returned s
TryStaticServed(r, d, t, env, rs, fz, s) ==
  IF s.rcode # NoServe THEN s
  ELSE TryDbServed(r, fz, env,
         TryServe(r, Append(s.lookups, TryLookup("db", r)),
                  TryResult(DbLookupRecords(d, t, env, rs, StateName(r), r.qtype),
                            DbLookupRecords(d, t, env, rs, StateName(r), r.qtype).d)))

\* ServeDNS of the handler that tries the static source, then the database
TryServeDNS(r, st, d, t, env, rs, fz) ==
  TryStaticServed(r, d, t, env, rs, fz,
    TryServe(r, <<TryLookup("static", r)>>,
             TryResult(StaticLookupRecords(st.records, StateName(r), r.qtype), d)))

\* records of the two zones and of a type the encoder refuses
TryPool ==
  { MkRecord(MkName(<<"n1", "bootstrap", "pce", "internal">>, TRUE), TypeA,
             DefaultTTL, [ZeroContent EXCEPT !.IP = ParseIP("10.0.0.5")]),
    MkRecord(MkName(<<"n1-api", "pce", "internal">>, TRUE), TypeA,
             DefaultTTL, [ZeroContent EXCEPT !.IP = ParseIP("10.0.0.6")]),
    MkRecord(MkName(<<"n1", "bootstrap", "pce", "internal">>, TRUE), TypeOther,
             DefaultTTL, ZeroContent) }

InitTry ==
  /\ OutOfService
  /\ arg \in [r : Requests,
              st : {[NewStaticPlugin EXCEPT !.records = rs] :
                      rs \in SeqsUpTo(TryPool, MaxRecs)},
              d : {NewDbPlugin(ds) : ds \in DataSources},
              rows : StoreRows,
              fz : FallthroughConfigs]
  /\ ret = NoRet

\* one ServeDNS, whatever the store does during it
ApplyTry ==
  /\ ~ret.done
  /\ \E env \in Envs(arg.rows) :
       \E sl \in {StaticLookupRecords(arg.st.records, StateName(arg.r), arg.r.qtype)} :
         ret' = [done |-> TRUE,
                 val |-> [sl |-> sl,
                          out |-> TryServeDNS(arg.r, arg.st, arg.d, now, env,
                                              arg.rows, arg.fz)]]
  /\ UNCHANGED <<static, file, db, now, rows, fallthroughZones, started, last, arg, tasks>>

SpecTry == InitTry /\ [][ApplyTry]_vars

\* the database was looked up during the call
DbLookedUp(out) == \E i \in DOMAIN out.lookups : out.lookups[i].adapter = "db"

\* the source returned neither records nor an error
Nothing(l) == l.records = <<>> /\ l.err = NoErr

\* C28: in the handler that tries the two sources in turn, the database is
\* looked up only after the static lookup returned neither records nor an
\* error; a static lookup with records or an error decides the response by
\* itself; the next handler or NameError is reached only when both sources
\* returned nothing; and no Success message has an empty answer section.
C28_PriorityTry ==
  ret.done =>
    /\ ret.val.out.lookups[1].adapter = "static"
    /\ DbLookedUp(ret.val.out) <=> Nothing(ret.val.sl)
    /\ ~Nothing(ret.val.sl) =>
         /\ ret.val.out.lk.records = ret.val.sl.records
         /\ ret.val.out.d = arg.d
         /\ Len(ret.val.out.writes) = 1
         /\ ret.val.out.next = <<>>
         /\ ret.val.out.writes[1].Rcode \in {RcodeSuccess, RcodeServerFailure}
    /\ (\/ ret.val.out.next # <<>>
        \/ \E i \in DOMAIN ret.val.out.writes :
             ret.val.out.writes[i].Rcode = RcodeNameError) =>
         /\ Nothing(ret.val.sl)
         /\ DbLookedUp(ret.val.out)
         /\ Nothing(ret.val.out.lk)
    /\ (DbLookedUp(ret.val.out) /\ ~Nothing(ret.val.out.lk)) =>
         /\ Len(ret.val.out.writes) = 1
         /\ ret.val.out.next = <<>>
         /\ ret.val.out.writes[1].Rcode \in {RcodeSuccess, RcodeServerFailure}
    /\ \A i \in DOMAIN ret.val.out.writes :
         ret.val.out.writes[i].Rcode = RcodeSuccess =>
           ret.val.out.writes[i].Answer # <<>>
    /\ ret.val.out.rcode # NoServe

\* the static source holds records of another type only, the database has
\* the name: the answer comes from the database
C28_Witness ==
  /\ ret.done
  /\ arg.st.records # <<>>
  /\ Nothing(ret.val.sl)
  /\ DbLookedUp(ret.val.out)
  /\ ret.val.out.lk.records # <<>>
  /\ ret.val.out.rcode = RcodeSuccess
  /\ ret.val.out.writes[1].Answer # <<>>

\* the file can be read and decoded, and the adapter runs its loop and is
\* not closed
FileGoodAndLoopRuns ==
  /\ file.exists
  /\ file.content.decodable
  /\ tasks.loop.pc # "none"
  /\ ~tasks.closed

\* the cached records are those decoded from the file as it is
CacheIsFile ==
  \E order \in Perms(DOMAIN file.content.nodes) :
    static.records = parseStaticFile(file.content, static.TTL, order).records

\* C29: if from some point on the file is readable and decodable (its
\* writes come to an end) and the started adapter is not closed, then from
\* some point on the cached records are those of the file.
C29_CacheSettlesOnFinalFile ==
  <>[]FileGoodAndLoopRuns => <>[]CacheIsFile

\* the file has its last content and the cache holds it, while a refresh
\* that decoded an older content is about to replace the cache
C29_Witness ==
  /\ FileGoodAndLoopRuns
  /\ file.mtime = MaxEdits
  /\ CacheIsFile
  /\ tasks.origin.src = file
  /\ \E t \in TaskIds :
       /\ tasks[t].pc = "write"
       /\ tasks[t].src.mtime < file.mtime
       /\ tasks[t].recs # static.records

(***************************************************************************)
(* The plugin from parseConfig to the shutdown of the server: Connect and  *)
(* Start at setup, the goroutine and the ticker of the static adapter, and *)
(* the function parseConfig registers with c.OnShutdown.                   *)
(***************************************************************************)
\* pcePlugin.db != nil and pcePlugin.static != nil: parseConfig sets both
DbPresent == TRUE
StaticPresent == TRUE

\* after pcePlugin.db.Connect() of parseConfig, whatever the store did
InitHook ==
  /\ static = NewStaticPlugin
  /\ file = NoFile
  /\ db \in {Connect(NewDbPlugin(ds), 0, s.openOk, s.pingOk) :
               ds \in DataSources, s \in StoreDoes}
  /\ now = 0
  /\ rows = <<>>
  /\ fallthroughZones = <<>>
  /\ started = FALSE
  /\ last = NoCall
  /\ arg = <<>>
  /\ ret = NoRet
  /\ tasks = NoTasks

\* the function given to c.OnShutdown: the first branch that applies returns
ShutdownHook ==
  /\ tasks.main.pc = "returned"
  /\ IF DbPresent
     THEN /\ tasks' = [tasks EXCEPT !.main.pc = "shutdown", !.dbClosed = db.db]
          /\ static' = static
     ELSE IF StaticPresent
     THEN /\ tasks' = [tasks EXCEPT !.main.pc = "shutdown",
                                    !.closed = tasks.closed \/ static.loop]
          /\ static' = [static EXCEPT !.loop = FALSE]
     ELSE /\ tasks' = [tasks EXCEPT !.main.pc = "shutdown"]
          /\ static' = static
  /\ UNCHANGED <<file, db, now, rows, fallthroughZones, started, last, arg, ret>>

NextHook ==
  \/ TaskStart
  \/ TickerFire
  \/ LoopTick
  \/ \E t \in TaskIds : ReadOpen(t)
  \/ \E t \in TaskIds : ReadStat(t)
  \/ \E t \in TaskIds : ReadCheck(t)
  \/ \E t \in TaskIds : ReadParse(t)
  \/ \E t \in TaskIds : ReadWrite(t)
  \/ TaskEdit
  \/ ShutdownHook

SpecHook == InitHook /\ [][NextHook]_vars

\* C30: when the shutdown hook has run, the pool of the database adapter is
\* closed if there was one, and the static adapter is closed: the channel of
\* its goroutine is closed and p.loop is nil.
C30_ShutdownClosesBoth ==
  tasks.main.pc = "shutdown" =>
    /\ db.db => tasks.dbClosed
    /\ tasks.loop.pc # "none" => (tasks.closed /\ ~static.loop)

====
